---- MODULE Spec2Model ----
(***************************************************************************)
(* A model of the farusql document store (src/farusql.js): one store       *)
(* instance `db` (the fields of `this`), the three persisted artifacts     *)
(* `fs`, `last`, the record of the call that was made last, and `calls`,   *)
(* the number of calls made so far.  `begun` is a history variable: the    *)
(* documents and indexes in memory when the active transaction began.      *)
(*                                                                         *)
(* Modelled configuration: Node.js (isNode is true, so files are written   *)
(* and transactions are available) and no encryption key, so that          *)
(* _encryptDocument and _decryptDocument return their argument             *)
(* (farusql.js:681, :694).  Documents carry one user field, f.             *)
(* _deepClone is a JSON round trip (farusql.js:176); on the values of this *)
(* model (strings, booleans, null, absent fields, arrays of records) it    *)
(* returns an equal value that shares nothing with its argument; values    *)
(* of the model share nothing, so a clone is the value itself.             *)
(***************************************************************************)
EXTENDS Naturals, Sequences, FiniteSets, TLC

VARIABLES db, fs, last, calls, begun, pending, heap

vars == <<db, fs, last, calls, begun, pending, heap>>

(***************************************************************************)
(* Bounds of the model.                                                    *)
(***************************************************************************)
MaxDocs == 2       \* documents in the collection at one time
MaxRevs == 3       \* length of a document's _revisions list
MaxLog == 2        \* records in the transaction log
MaxListeners == 1  \* registered change listeners
MaxCalls == 4      \* calls made on the store in one run
MaxWheres == 1     \* predicates in the query state
MaxQueryCalls == 3  \* calls made on a prepared store in one run
MaxPage == 3        \* page and perPage arguments of paginate

(***************************************************************************)
(* JavaScript values, tagged with their typeof.                            *)
(***************************************************************************)
Str(s) == [t |-> "string", v |-> s]
Undefined == [t |-> "undefined", v |-> ""]
Null == [t |-> "null", v |-> ""]
Bool(b) == [t |-> "boolean", v |-> IF b THEN "true" ELSE "false"]
\* A number, by its decimal text: Num("0"), Num("1").
Num(n) == [t |-> "number", v |-> n]

IsNullish(val) == val.t \in {"undefined", "null"}

Range(s) == {s[i] : i \in 1..Len(s)}

\* The document ids the model draws from: a caller-supplied _id, or the
\* value of generateId(), which is an id no stored document has.
IdPool == <<"a", "b">>
Ids == Range(IdPool)

\* _getValueByDot for the paths of the model: the user field f and _id.
GetValueByDot(doc, key) ==
  IF key = "_id" THEN Str(doc._id)
  ELSE IF key = "f" THEN doc.f
  ELSE Undefined

\* _serializeIndexValue
SerializeIndexValue(val) ==
  IF val.t = "boolean" THEN (IF val.v = "true" THEN "1" ELSE "0")
  ELSE IF IsNullish(val) THEN "NULL"
  ELSE val.v

\* A composite key, or null: [isNull |-> TRUE] is JavaScript's null.
NullKey == [isNull |-> TRUE, key |-> ""]
Key(s) == [isNull |-> FALSE, key |-> s]

RECURSIVE JoinKeys(_)
JoinKeys(values) ==
  IF Len(values) = 0 THEN ""
  ELSE IF Len(values) = 1 THEN values[1]
  ELSE values[1] \o "|" \o JoinKeys(Tail(values))

\* _getCompositeIndexValue
GetCompositeIndexValue(doc, fields) ==
  IF \E i \in 1..Len(fields) : IsNullish(GetValueByDot(doc, fields[i]))
  THEN NullKey
  ELSE Key(JoinKeys([i \in 1..Len(fields) |->
                       SerializeIndexValue(GetValueByDot(doc, fields[i]))]))

\* JavaScript truthiness of a composite key: null and "" are falsy.
Truthy(k) == ~k.isNull /\ k.key # ""

(***************************************************************************)
(* Sequence helpers.                                                       *)
(***************************************************************************)
RECURSIVE SelectSeqBy(_, _)
SelectSeqBy(s, keep) ==
  IF s = <<>> THEN <<>>
  ELSE IF Head(s) \in keep THEN <<Head(s)>> \o SelectSeqBy(Tail(s), keep)
  ELSE SelectSeqBy(Tail(s), keep)

Without(s, ids) == SelectSeqBy(s, {s[i] : i \in 1..Len(s)} \ ids)

\* Array.prototype.findIndex: the first position that satisfies Test, 0 for -1.
FindIndex(s, Test(_)) ==
  IF \E i \in 1..Len(s) : Test(s[i])
  THEN CHOOSE i \in 1..Len(s) : Test(s[i]) /\ \A j \in 1..(i - 1) : ~Test(s[j])
  ELSE 0

RemoveAt(s, i) == SubSeq(s, 1, i - 1) \o SubSeq(s, i + 1, Len(s))

(***************************************************************************)
(* _tokenizeText: text.toLowerCase().match(/\b\p{L}[\p{L}\p{N}]*\b/gu),    *)
(* de-duplicated.  \b is a boundary of \w = [A-Za-z0-9_], so on ASCII text *)
(* the matches are the maximal runs of \w characters that start with a     *)
(* letter and hold letters and digits only.                                *)
(***************************************************************************)
LowerAlphabet == "abcdefghijklmnopqrstuvwxyz"
UpperAlphabet == "ABCDEFGHIJKLMNOPQRSTUVWXYZ"
DigitChars == "0123456789"

CharsOf(s) == {SubSeq(s, i, i) : i \in 1..Len(s)}

ToLowerCase(c) ==
  IF c \in CharsOf(UpperAlphabet)
  THEN LET i == CHOOSE k \in 1..Len(UpperAlphabet) : SubSeq(UpperAlphabet, k, k) = c
       IN SubSeq(LowerAlphabet, i, i)
  ELSE c

IsLetter(c) == c \in CharsOf(LowerAlphabet)
IsWordChar(c) == IsLetter(c) \/ c \in CharsOf(DigitChars) \/ c = "_"

RECURSIVE ConcatChars(_)
ConcatChars(cs) == IF cs = <<>> THEN "" ELSE Head(cs) \o ConcatChars(Tail(cs))

TokenizeText(val) ==
  IF val.t # "string" THEN {}
  ELSE
    LET n == Len(val.v)
        cs == [i \in 1..n |-> ToLowerCase(SubSeq(val.v, i, i))]
        RunStart(i) == IsWordChar(cs[i]) /\ (i = 1 \/ ~IsWordChar(cs[i - 1]))
        RunEnd(i) == CHOOSE j \in i..n :
                       /\ \A k \in i..j : IsWordChar(cs[k])
                       /\ (j = n \/ ~IsWordChar(cs[j + 1]))
        IsToken(i) == /\ RunStart(i)
                      /\ IsLetter(cs[i])
                      /\ \A k \in i..RunEnd(i) : cs[k] # "_"
    IN {ConcatChars(SubSeq(cs, i, RunEnd(i))) : i \in {k \in 1..n : IsToken(k)}}

(***************************************************************************)
(* Secondary indexes: name -> [fields, map], map: key -> list of ids.      *)
(***************************************************************************)
\* index.map[key].push(id), creating the list when the key is new.
MapPush(map, key, id) ==
  [k \in DOMAIN map \cup {key} |->
     IF k = key
     THEN (IF key \in DOMAIN map THEN Append(map[key], id) ELSE <<id>>)
     ELSE map[k]]

\* index.map[key] = index.map[key].filter(id => id !== gone), and
\* delete index.map[key] when the list is empty; nothing when key is absent.
MapRemove(map, key, gone) ==
  IF key \notin DOMAIN map THEN map
  ELSE LET left == Without(map[key], {gone})
       IN IF left = <<>>
          THEN [k \in DOMAIN map \ {key} |-> map[k]]
          ELSE [map EXCEPT ![key] = left]

\* _updateIndexesOnInsert
UpdateIndexesOnInsert(indexes, doc) ==
  [name \in DOMAIN indexes |->
     LET index == indexes[name]
         indexValue == GetCompositeIndexValue(doc, index.fields)
     IN IF indexValue.isNull THEN index
        ELSE [index EXCEPT !.map = MapPush(index.map, indexValue.key, doc._id)]]

\* _updateIndexesOnUpdate
UpdateIndexesOnUpdate(indexes, oldDoc, newDoc) ==
  [name \in DOMAIN indexes |->
     LET index == indexes[name]
         oldKey == GetCompositeIndexValue(oldDoc, index.fields)
         newKey == GetCompositeIndexValue(newDoc, index.fields)
         removed == IF Truthy(oldKey)
                    THEN MapRemove(index.map, oldKey.key, oldDoc._id)
                    ELSE index.map
         added == IF Truthy(newKey)
                  THEN MapPush(removed, newKey.key, newDoc._id)
                  ELSE removed
     IN IF oldKey = newKey THEN index ELSE [index EXCEPT !.map = added]]

\* _updateIndexesOnDelete
UpdateIndexesOnDelete(indexes, deletedIds) ==
  [name \in DOMAIN indexes |->
     LET index == indexes[name]
         kept == {k \in DOMAIN index.map : Without(index.map[k], deletedIds) # <<>>}
     IN [index EXCEPT !.map = [k \in kept |-> Without(index.map[k], deletedIds)]]]

\* The loop of createIndex over this.data (farusql.js:995-1003).
RECURSIVE BuildIndexMap(_, _, _)
BuildIndexMap(map, docs, fields) ==
  IF docs = <<>> THEN map
  ELSE LET indexValue == GetCompositeIndexValue(Head(docs), fields)
       IN BuildIndexMap(IF indexValue.isNull THEN map
                        ELSE MapPush(map, indexValue.key, Head(docs)._id),
                        Tail(docs), fields)

EmptyMap == [k \in {} |-> <<>>]

(***************************************************************************)
(* Full-text index: token -> set of document ids.                          *)
(***************************************************************************)
EmptyFullTextIndex == [w \in {} |-> {}]

\* _indexDocumentFullText
IndexDocumentFullText(fti, doc, fields) ==
  LET words == UNION {TokenizeText(GetValueByDot(doc, field)) : field \in fields}
  IN IF doc._id = "" THEN fti
     ELSE [w \in DOMAIN fti \cup words |->
             IF w \in words
             THEN (IF w \in DOMAIN fti THEN fti[w] ELSE {}) \cup {doc._id}
             ELSE fti[w]]

\* _removeDocumentFromFullTextIndex
RemoveDocumentFromFullTextIndex(fti, docId) ==
  LET kept == {w \in DOMAIN fti : fti[w] \ {docId} # {}}
  IN [w \in kept |-> fti[w] \ {docId}]

RECURSIVE BuildFullTextIndex(_, _, _)
BuildFullTextIndex(fti, docs, fields) ==
  IF docs = <<>> THEN fti
  ELSE BuildFullTextIndex(IndexDocumentFullText(fti, Head(docs), fields),
                          Tail(docs), fields)

(***************************************************************************)
(* The store instance (the fields of `this`) and the persisted artifacts.  *)
(***************************************************************************)
EmptyIndexes == [name \in {} |-> [fields |-> <<>>, map |-> EmptyMap]]

\* transactionLock = null
NoLock == "<null>"

\* _initialDataState, _initialIndexesState and _initialFullTextIndexState;
\* defined is FALSE while the three properties are absent.
NoSnapshot ==
  [defined |-> FALSE, data |-> <<>>, indexes |-> EmptyIndexes,
   fullTextIndex |-> EmptyFullTextIndex]

\* limitCount = null and orderByField = null
NoLimit == <<>>
NoOrder == "<null>"

\* The constructor; its last statement is _resetQuery().
NewStore ==
  [wheres |-> <<>>, limitCount |-> NoLimit, skipCount |-> 0,
   orderByField |-> NoOrder, orderByDirection |-> "asc", showDeleted |-> FALSE,
   data |-> <<>>, dataLoaded |-> FALSE,
   indexes |-> EmptyIndexes, indexesLoaded |-> FALSE,
   fullTextIndex |-> EmptyFullTextIndex, fullTextIndexLoaded |-> FALSE,
   fullTextIndexedFields |-> {},
   validationCallbacks |-> <<>>,
   transactionLock |-> NoLock, inTransaction |-> FALSE, transactionLog |-> <<>>,
   softDeleteEnabled |-> FALSE,
   changeListeners |-> 0, throwing |-> {},
   initialState |-> NoSnapshot]

\* The three files; a file that does not exist reads as the empty
\* collection, index set or full-text index (farusql.js:148, :212-219).
NoFiles ==
  [data |-> <<>>, indexes |-> EmptyIndexes, fullTextIndex |-> EmptyFullTextIndex]

\* loadData
LoadData(d, f) ==
  IF d.dataLoaded THEN d
  ELSE [d EXCEPT
          !.data = IF d.softDeleteEnabled /\ ~d.showDeleted
                   THEN SelectSeq(f.data, LAMBDA doc : ~doc._deleted)
                   ELSE f.data,
          !.dataLoaded = TRUE]

\* loadIndexes
LoadIndexes(d, f) ==
  IF d.indexesLoaded THEN d
  ELSE [d EXCEPT !.indexes = f.indexes, !.indexesLoaded = TRUE]

\* loadFullTextIndex
LoadFullTextIndex(d, f) ==
  IF d.fullTextIndexLoaded THEN d
  ELSE [d EXCEPT !.fullTextIndex = f.fullTextIndex, !.fullTextIndexLoaded = TRUE]

\* The three awaits that open insert, insertMany, update, delete and
\* beginTransaction.
LoadAll(d, f) == LoadFullTextIndex(LoadIndexes(LoadData(d, f), f), f)

\* Mutant of WriteFile: the data is written to the target path itself,
\* which writeFileSync truncates when it opens it.
WriteFileInPlace(old, new, renamed) == IF renamed THEN new ELSE <<>>

\* _writeFile(path, data): the content of the file at path, which held old,
\* when the call got as far as renameSync (renamed) or stopped before it:
\* writeFileSync writes the temporary sibling path + ".tmp", which no load
\* reads, and renameSync replaces the target in one step.
WriteFile(old, new, renamed) == IF renamed THEN new ELSE old

\* saveData, saveIndexes, saveFullTextIndex: one _writeFile each.
SaveData(d, f, renamed) ==
  [f EXCEPT !.data = WriteFile(f.data, d.data, renamed)]
SaveIndexes(d, f, renamed) ==
  [f EXCEPT !.indexes = WriteFile(f.indexes, d.indexes, renamed)]
SaveFullTextIndex(d, f, renamed) ==
  [f EXCEPT !.fullTextIndex = WriteFile(f.fullTextIndex, d.fullTextIndex, renamed)]

\* The persist step "await saveData(); await saveIndexes(); await
\* saveFullTextIndex()" of which the first `writes` writes complete: 3 when
\* the step runs to its end, fewer when the process stops inside the next
\* write, which is then not renamed.
PersistAll(d, f, writes) ==
  LET f1 == SaveData(d, f, writes >= 1)
      f2 == IF writes >= 1 THEN SaveIndexes(d, f1, writes >= 2) ELSE f1
  IN IF writes >= 2 THEN SaveFullTextIndex(d, f2, writes >= 3) ELSE f2

AllWrites == 3

(***************************************************************************)
(* Validation, stamps, revisions, notifications.                           *)
(***************************************************************************)
\* The validator the model registers: it returns true unless f is "".
NotEmpty(doc) == doc.f # Str("")

\* validateDocument: TRUE when no callback rejects (no throw).
ValidateDocument(d, doc) ==
  \A i \in 1..Len(d.validationCallbacks) :
     d.validationCallbacks[i] = "NotEmpty" => NotEmpty(doc)

\* _addTimestamps: nowISO() is modelled per document, by the number of
\* stamps the document has received.
AddTimestamps(doc) == [doc EXCEPT !._updated = doc._updated + 1]

\* _addRevision
AddRevision(doc, action) == [doc EXCEPT !._revisions = Append(doc._revisions, action)]

\* Mutant of TriggerChange: the notifications are delivered inside a
\* transaction too (the guard on inTransaction is missing).
RECURSIVE TriggerChangeUnguarded(_, _, _)
TriggerChangeUnguarded(d, ids, type) ==
  IF ids = <<>> THEN <<>>
  ELSE [cb \in 1..d.changeListeners |->
          [listener |-> cb, _id |-> Head(ids), type |-> type]]
       \o TriggerChangeUnguarded(d, Tail(ids), type)

\* try { cb({doc, type}) } catch (e) { console.error(...) } for listener
\* cb, one of d.throwing when the callback registered throws: how the
\* statement ends, "thrown" when an exception leaves it.
Invoke(d, cb) == IF cb \in d.throwing THEN "caught" ELSE "returned"

\* The for loop of _triggerChange from listener cb on: the listeners
\* invoked, in registration order, until an exception leaves the loop.
RECURSIVE ForEachListener(_, _, _, _)
ForEachListener(d, cb, id, type) ==
  IF cb > d.changeListeners THEN <<>>
  ELSE <<[listener |-> cb, _id |-> id, type |-> type]>>
       \o (IF Invoke(d, cb) = "thrown" THEN <<>>
           ELSE ForEachListener(d, cb + 1, id, type))

\* One call of _triggerChange per element of ids, in order: the
\* notifications delivered, one per listener, and none inside a transaction.
RECURSIVE TriggerChange(_, _, _)
TriggerChange(d, ids, type) ==
  IF ids = <<>> THEN <<>>
  ELSE (IF ~d.inTransaction THEN ForEachListener(d, 1, Head(ids), type) ELSE <<>>)
       \o TriggerChange(d, Tail(ids), type)

\* generateId(): an id that no document in memory, in the snapshot or on
\* disk has.
UsedIds(d, f) ==
  {doc._id : doc \in Range(d.data) \cup Range(d.initialState.data) \cup Range(f.data)}

CanGenerateId(d, f) == Ids \ UsedIds(d, f) # {}

GenerateId(d, f) ==
  LET i == CHOOSE k \in 1..Len(IdPool) :
             /\ IdPool[k] \notin UsedIds(d, f)
             /\ \A j \in 1..(k - 1) : IdPool[j] \in UsedIds(d, f)
  IN IdPool[i]

\* What a call leaves behind: the store, the files, how it ended, what it
\* returned, the notifications it delivered and the ids it targeted.
Result(d, f, outcome, ret, notified, target) ==
  [db |-> d, fs |-> f, outcome |-> outcome, ret |-> ret,
   notified |-> notified, target |-> target]

(***************************************************************************)
(* Queries: the builder state, get() and the other terminal calls.         *)
(***************************************************************************)
\* JavaScript's loose equality on the values of the model: null and
\* undefined equal each other and nothing else; two values of one type are
\* equal when they are the same value; a boolean, a number and a string
\* are compared as numbers ("" and "0" are 0, "1" is 1, other text is NaN,
\* which equals nothing).
StringIsNumber(s, n) == (n = 0 /\ s \in {"", "0"}) \/ (n = 1 /\ s = "1")

\* ToNumber, as decimal text.
ToNumber(val) ==
  IF val.t = "boolean" THEN (IF val.v = "true" THEN "1" ELSE "0")
  ELSE IF val.t = "number" THEN val.v
  ELSE IF StringIsNumber(val.v, 0) THEN "0"
  ELSE IF StringIsNumber(val.v, 1) THEN "1"
  ELSE "NaN"

LooseEquals(a, b) ==
  IF IsNullish(a) \/ IsNullish(b) THEN IsNullish(a) /\ IsNullish(b)
  ELSE IF a.t = b.t THEN a.v = b.v
  ELSE ToNumber(a) = ToNumber(b) /\ ToNumber(a) # "NaN"

\* The UTF-16 code units of the model's strings, in increasing order.
CodeUnits == " " \o DigitChars \o UpperAlphabet \o "_" \o LowerAlphabet

CodeUnitOf(c) == CHOOSE i \in 1..Len(CodeUnits) : SubSeq(CodeUnits, i, i) = c

\* a < b for two strings: the comparison by code units.
RECURSIVE StringLess(_, _)
StringLess(a, b) ==
  IF b = "" THEN FALSE
  ELSE IF a = "" THEN TRUE
  ELSE IF SubSeq(a, 1, 1) # SubSeq(b, 1, 1)
  THEN CodeUnitOf(SubSeq(a, 1, 1)) < CodeUnitOf(SubSeq(b, 1, 1))
  ELSE StringLess(SubSeq(a, 2, Len(a)), SubSeq(b, 2, Len(b)))

\* ToNumber for the operands of a relational operator: undefined is NaN,
\* null is 0.
ToNumeric(val) == IF val.t = "undefined" THEN "NaN" ELSE ToNumber(val)

\* a < b as JavaScript evaluates it: two strings by code units, anything
\* else as numbers, and false when one of the numbers is NaN.
LessThan(a, b) ==
  IF a.t = "string" /\ b.t = "string" THEN StringLess(a.v, b.v)
  ELSE ToNumeric(a) = "0" /\ ToNumeric(b) = "1"

\* a <= b: neither operand NaN and not b < a.
LessOrEqual(a, b) ==
  IF a.t = "string" /\ b.t = "string" THEN ~StringLess(b.v, a.v)
  ELSE /\ ToNumeric(a) # "NaN"
       /\ ToNumeric(b) # "NaN"
       /\ ~(ToNumeric(b) = "0" /\ ToNumeric(a) = "1")

\* s.toLowerCase()
RECURSIVE LowerCased(_)
LowerCased(s) ==
  IF s = "" THEN "" ELSE ToLowerCase(SubSeq(s, 1, 1)) \o LowerCased(SubSeq(s, 2, Len(s)))

\* s.includes(part)
Includes(s, part) ==
  \E i \in 1..(Len(s) + 1) :
     i + Len(part) - 1 <= Len(s) /\ SubSeq(s, i, i + Len(part) - 1) = part

\* An array value, for whereIn: items lists its elements.
Array(items) == [t |-> "array", v |-> "", items |-> items]

\* _testCondition
TestCondition(doc, condition) ==
  LET docValue == GetValueByDot(doc, condition.field)
      value == condition.value
      operator == condition.operator
  IN IF operator \in {"=", "=="} THEN LooseEquals(docValue, value)
     ELSE IF operator \in {"!=", "<>"} THEN ~LooseEquals(docValue, value)
     ELSE IF operator = ">" THEN LessThan(value, docValue)
     ELSE IF operator = ">=" THEN LessOrEqual(value, docValue)
     ELSE IF operator = "<" THEN LessThan(docValue, value)
     ELSE IF operator = "<=" THEN LessOrEqual(docValue, value)
     ELSE IF operator = "in"
     THEN value.t = "array" /\ \E i \in 1..Len(value.items) : value.items[i] = docValue
     ELSE IF operator = "like"
     THEN /\ docValue.t = "string"
          /\ value.t = "string"
          /\ Includes(LowerCased(docValue.v), LowerCased(value.v))
     ELSE FALSE

\* explainQuery().whereFields: the fields the predicates name, those of the
\* sub-conditions of a group included.
WhereFields(wheres) ==
  UNION {IF "or" \in DOMAIN wheres[j]
         THEN {wheres[j].or[k].field : k \in 1..Len(wheres[j].or)}
         ELSE {wheres[j].field} : j \in 1..Len(wheres)}

\* explainQuery().usedIndexes: the names of the indexes one of whose fields
\* a predicate names.
UsedIndexes(d, wheres) ==
  {name \in DOMAIN d.indexes :
     \E i \in 1..Len(d.indexes[name].fields) :
        d.indexes[name].fields[i] \in WhereFields(wheres)}

\* _resetQuery
ResetQuery(d) ==
  [d EXCEPT !.wheres = <<>>, !.limitCount = NoLimit, !.skipCount = 0,
            !.orderByField = NoOrder, !.orderByDirection = "asc",
            !.showDeleted = FALSE]

\* The builder calls: where, limit, skip, orderBy, withTrashed, onlyDeleted.
Where(d, field, operator, value) ==
  [d EXCEPT !.wheres = Append(d.wheres, [field |-> field, operator |-> operator,
                                         value |-> value])]
OrWhere(d, conditions) == [d EXCEPT !.wheres = Append(d.wheres, [or |-> conditions])]
WhereIn(d, field, values) == Where(d, field, "in", Array(values))
WhereLike(d, field, value) == Where(d, field, "like", value)
Limit(d, count) == [d EXCEPT !.limitCount = <<count>>]
Skip(d, count) == [d EXCEPT !.skipCount = count]
OrderBy(d, field, direction) ==
  [d EXCEPT !.orderByField = field, !.orderByDirection = direction]
WithTrashed(d) == [d EXCEPT !.showDeleted = TRUE]
OnlyDeleted(d) == [d EXCEPT !.showDeleted = TRUE]

\* where(...) for each predicate of a list, in order.
RECURSIVE WhereAll(_, _)
WhereAll(d, conditions) ==
  IF conditions = <<>> THEN d
  ELSE WhereAll(Where(d, Head(conditions).field, Head(conditions).operator,
                      Head(conditions).value),
                Tail(conditions))

\* Property names every object literal inherits from Object.prototype:
\* index.map[key] is a function, not undefined, for these keys when the map
\* has no own entry for them.
ObjectPrototypeKeys ==
  {"constructor", "toString", "valueOf", "hasOwnProperty", "isPrototypeOf",
   "propertyIsEnumerable", "toLocaleString"}

\* Mutant of Visible: the soft-delete filter is missing.
VisibleUnfiltered(d) == d.data

\* The documents a query sees: tombstones are dropped unless showDeleted.
Visible(d) ==
  IF d.softDeleteEnabled /\ ~d.showDeleted
  THEN SelectSeq(d.data, LAMBDA doc : ~doc._deleted)
  ELSE d.data

\* A predicate pushed by orWhere: {or: conditions}.
IsGroup(condition) == "or" \in DOMAIN condition

\* condition.or.some(...) for a group, _testCondition for a comparison.
Satisfies(doc, condition) ==
  IF IsGroup(condition)
  THEN \E k \in 1..Len(condition.or) : TestCondition(doc, condition.or[k])
  ELSE TestCondition(doc, condition)

\* Mutant of Matches: some for every, a document passes when it satisfies
\* one element of the list.
MatchesSome(doc, wheres) ==
  wheres = <<>> \/ \E i \in 1..Len(wheres) : Satisfies(doc, wheres[i])

\* this.wheres.every(condition => ...), the filter of get() and count()
Matches(doc, wheres) == \A i \in 1..Len(wheres) : Satisfies(doc, wheres[i])

\* a.localeCompare(b) < 0, for strings of one lower-case letter.
LocaleLess(a, b) ==
  \E i \in 1..Len(LowerAlphabet) : \E j \in 1..Len(LowerAlphabet) :
     /\ SubSeq(LowerAlphabet, i, i) = a
     /\ SubSeq(LowerAlphabet, j, j) = b
     /\ i < j

\* The comparator of get()'s sort (farusql.js:386-397): "lt", "eq" or "gt"
\* for a negative, zero or positive result.
Compare(a, b, field, direction) ==
  LET valA == GetValueByDot(a, field)
      valB == GetValueByDot(b, field)
      asc == direction = "asc"
      Less(x, y) == ToNumber(x) = "0" /\ ToNumber(y) = "1"
  IN IF valA = valB THEN "eq"
     ELSE IF IsNullish(valA) THEN (IF asc THEN "gt" ELSE "lt")
     ELSE IF IsNullish(valB) THEN (IF asc THEN "lt" ELSE "gt")
     ELSE IF valA.t = "string" /\ valB.t = "string"
     THEN (IF asc
           THEN (IF LocaleLess(valA.v, valB.v) THEN "lt" ELSE "gt")
           ELSE (IF LocaleLess(valB.v, valA.v) THEN "lt" ELSE "gt"))
     ELSE IF asc THEN (IF Less(valA, valB) THEN "lt" ELSE "gt")
     ELSE (IF Less(valB, valA) THEN "lt" ELSE "gt")

\* Array.prototype.sort(comparator) as V8 runs it on fewer than 64
\* elements: CountAndMakeRun takes the longest prefix that is ascending, or
\* is strictly descending and then reversed, and BinaryInsertionSort places
\* each later element.  The comparator is called with the later element
\* first.  RunEnd is the length of that prefix.
RECURSIVE RunEnd(_, _, _, _, _)
RunEnd(rows, idx, descending, field, direction) ==
  IF idx > Len(rows) THEN Len(rows)
  ELSE LET order == Compare(rows[idx], rows[idx - 1], field, direction)
       IN IF descending = (order = "lt")
          THEN RunEnd(rows, idx + 1, descending, field, direction)
          ELSE idx - 1

Reverse(s) == [i \in 1..Len(s) |-> s[Len(s) + 1 - i]]

\* The binary search of BinaryInsertionSort: where pivot goes among the
\* sorted elements s, between left and right (counted from 0).
RECURSIVE InsertionPoint(_, _, _, _, _, _)
InsertionPoint(s, pivot, left, right, field, direction) ==
  IF left >= right THEN left
  ELSE LET mid == left + ((right - left) \div 2)
       IN IF Compare(pivot, s[mid + 1], field, direction) = "lt"
          THEN InsertionPoint(s, pivot, left, mid, field, direction)
          ELSE InsertionPoint(s, pivot, mid + 1, right, field, direction)

\* BinaryInsertionSort from the element at position start on.
RECURSIVE BinaryInsertionSort(_, _, _, _)
BinaryInsertionSort(s, start, field, direction) ==
  IF start > Len(s) THEN s
  ELSE LET pivot == s[start]
           left == InsertionPoint(s, pivot, 0, start - 1, field, direction)
       IN BinaryInsertionSort(SubSeq(s, 1, left) \o <<pivot>>
                                \o SubSeq(s, left + 1, start - 1)
                                \o SubSeq(s, start + 1, Len(s)),
                              start + 1, field, direction)

SortBy(rows, field, direction) ==
  IF Len(rows) < 2 THEN rows
  ELSE LET descending == Compare(rows[2], rows[1], field, direction) = "lt"
           run == RunEnd(rows, 3, descending, field, direction)
           made == IF descending
                   THEN Reverse(SubSeq(rows, 1, run)) \o SubSeq(rows, run + 1, Len(rows))
                   ELSE rows
       IN BinaryInsertionSort(made, run + 1, field, direction)

\* results.slice(skipCount) and results.slice(0, limitCount)
Slice(rows, skipCount, limitCount) ==
  LET skipped == SubSeq(rows, skipCount + 1, Len(rows))
  IN IF limitCount = NoLimit THEN skipped
     ELSE SubSeq(skipped, 1, IF limitCount[1] < Len(skipped) THEN limitCount[1]
                              ELSE Len(skipped))

\* get(): [db, outcome, rows].  The index prefilter (farusql.js:353-368)
\* takes the first equality predicate on a field of a used index; when the
\* serialized value is a key of that index's map the listed ids prefilter
\* and the predicate is dropped; when the key is only an inherited property
\* new Set(...) throws a TypeError, before _resetQuery().
Get(d0, f) ==
  LET d == LoadIndexes(LoadData(d0, f), f)
      Eligible(w) == /\ "or" \notin DOMAIN w
                     /\ w.field \in UsedIndexes(d, d.wheres)
                     /\ w.operator \in {"=", "=="}
      p == FindIndex(d.wheres, Eligible)
      indexKey == SerializeIndexValue(d.wheres[p].value)
      hasIndex == p # 0 /\ d.wheres[p].field \in DOMAIN d.indexes
      useIndex == hasIndex /\ indexKey \in DOMAIN d.indexes[d.wheres[p].field].map
      inherited == hasIndex /\ ~useIndex /\ indexKey \in ObjectPrototypeKeys
      prefiltered ==
        IF useIndex
        THEN SelectSeq(Visible(d), LAMBDA doc :
               doc._id \in Range(d.indexes[d.wheres[p].field].map[indexKey]))
        ELSE Visible(d)
      rest == IF useIndex THEN RemoveAt(d.wheres, p) ELSE d.wheres
      filtered == SelectSeq(prefiltered, LAMBDA doc : Matches(doc, rest))
      ordered == IF d.orderByField # NoOrder
                 THEN SortBy(filtered, d.orderByField, d.orderByDirection)
                 ELSE filtered
  IN IF inherited
     THEN [db |-> d, outcome |-> "TypeError", rows |-> <<>>]
     ELSE [db |-> ResetQuery(d), outcome |-> "ok",
           rows |-> Slice(ordered, d.skipCount, d.limitCount)]

\* findOne(): get(), then the first row or null (no row).
FindOne(d0, f) ==
  LET got == Get(d0, f)
  IN [got EXCEPT !.rows = SubSeq(got.rows, 1, IF got.rows = <<>> THEN 0 ELSE 1)]

\* findById(_id): the first document with that id that the soft-delete
\* filter lets through, or null (no row).
FindById(d0, f, id) ==
  LET d == LoadData(d0, f)
      Found(doc) == /\ doc._id = id
                    /\ (~d.softDeleteEnabled \/ d.showDeleted \/ ~doc._deleted)
      at == FindIndex(d.data, Found)
  IN [db |-> ResetQuery(d), outcome |-> "ok",
      rows |-> IF at = 0 THEN <<>> ELSE <<d.data[at]>>]

\* count(): the predicates over every visible document, without an index.
Count(d0, f) ==
  LET d == LoadData(d0, f)
  IN [db |-> ResetQuery(d), outcome |-> "ok",
      rows |-> SelectSeq(Visible(d), LAMBDA doc : Matches(doc, d.wheres))]

\* nextPage = null and prevPage = null
NoPage == <<>>

\* The clamps of paginate: "if (page < 1) page = 1", the same for perPage.
AtLeastOne(k) == IF k < 1 THEN 1 ELSE k

\* Mutant of Paginate: totalPages rounds down (Math.floor for Math.ceil).
PaginateFloor(d0, f, page0, perPage0) ==
  LET page == AtLeastOne(page0)
      perPage == AtLeastOne(perPage0)
      counted == Count(d0, f)
      totalCount == Len(counted.rows)
      totalPages == totalCount \div perPage
      got == Get(Skip(Limit(counted.db, perPage), (page - 1) * perPage), f)
  IN [db |-> got.db, outcome |-> got.outcome, rows |-> got.rows,
      currentPage |-> page, perPage |-> perPage,
      totalCount |-> totalCount, totalPages |-> totalPages,
      hasMorePages |-> page < totalPages,
      nextPage |-> IF page < totalPages THEN <<page + 1>> ELSE NoPage,
      prevPage |-> IF page > 1 THEN <<page - 1>> ELSE NoPage]

\* paginate({page, perPage}): count(), which resets the query state, then
\* limit(perPage).skip((page - 1) * perPage).get(); rows is the data field
\* of the object returned.
Paginate(d0, f, page0, perPage0) ==
  LET page == AtLeastOne(page0)
      perPage == AtLeastOne(perPage0)
      counted == Count(d0, f)
      totalCount == Len(counted.rows)
      totalPages == (totalCount + perPage - 1) \div perPage
      got == Get(Skip(Limit(counted.db, perPage), (page - 1) * perPage), f)
  IN [db |-> got.db, outcome |-> got.outcome, rows |-> got.rows,
      currentPage |-> page, perPage |-> perPage,
      totalCount |-> totalCount, totalPages |-> totalPages,
      hasMorePages |-> page < totalPages,
      nextPage |-> IF page < totalPages THEN <<page + 1>> ELSE NoPage,
      prevPage |-> IF page > 1 THEN <<page - 1>> ELSE NoPage]

\* The elements of s at the positions keep, in order, from position i on.
RECURSIVE AtPositions(_, _, _)
AtPositions(s, keep, i) ==
  IF i > Len(s) THEN <<>>
  ELSE (IF i \in keep THEN <<s[i]>> ELSE <<>>) \o AtPositions(s, keep, i + 1)

\* fullTextSearch(query): no row when the query has no token or a token has
\* no entry in the index; otherwise, for each id listed under every token,
\* the first document with that id, when the soft-delete filter lets it
\* through.  The query state is not reset.  The rows are given in
\* collection order.
FullTextSearch(d0, f, query) ==
  LET d == LoadFullTextIndex(LoadData(d0, f), f)
      queryTokens == TokenizeText(query)
      known == queryTokens # {} /\ queryTokens \subseteq DOMAIN d.fullTextIndex
      matchingDocIds == {id \in Ids : \A token \in queryTokens :
                                         id \in d.fullTextIndex[token]}
      hits == {i \in 1..Len(d.data) :
                 /\ d.data[i]._id \in matchingDocIds
                 /\ i = FindIndex(d.data, LAMBDA x : x._id = d.data[i]._id)
                 /\ (~d.softDeleteEnabled \/ d.showDeleted \/ ~d.data[i]._deleted)}
  IN [db |-> d, outcome |-> "ok",
      rows |-> IF known THEN AtPositions(d.data, hits, 1) ELSE <<>>]

(***************************************************************************)
(* CRUD.  Every handler takes the store and the files and gives a Result.  *)
(***************************************************************************)
\* The document insert and insertMany store for the input doc: the id,
\* _addTimestamps(newDoc, true) and _addRevision(newDoc, 'insert').
NewDocument(d, f, doc) ==
  [_id |-> IF doc._id = "" THEN GenerateId(d, f) ELSE doc._id,
   f |-> doc.f,
   _deleted |-> FALSE,
   _updated |-> 1,
   _revisions |-> <<"insert">>]

\* this.data.push(doc) with both index updates (farusql.js:491-494).
StoreDocument(d, newDoc) ==
  [d EXCEPT
     !.data = Append(d.data, newDoc),
     !.indexes = UpdateIndexesOnInsert(d.indexes, newDoc),
     !.fullTextIndex =
        IndexDocumentFullText(d.fullTextIndex, newDoc, d.fullTextIndexedFields)]

\* The end of insert, insertMany, update and delete: persist outside a
\* transaction, log inside one, then the notifications.
Finish(d, f, record, ids, type, ret, writes) ==
  IF ~d.inTransaction
  THEN IF writes = AllWrites
       THEN Result(d, PersistAll(d, f, writes), "ok", ret,
                   TriggerChange(d, ids, type), Range(ids))
       ELSE Result(d, PersistAll(d, f, writes), "crash", FALSE, <<>>, Range(ids))
  ELSE LET logged == [d EXCEPT !.transactionLog = Append(d.transactionLog, record)]
       IN Result(logged, f, "ok", ret, TriggerChange(logged, ids, type), Range(ids))

\* insert; rows holds the document returned, a clone of the stored one.
Insert(d0, f, doc, writes) ==
  LET d == LoadAll(d0, f)
  IN IF d.inTransaction /\ d.transactionLock # NoLock
     THEN Result(d, f, "TransactionLockError", FALSE, <<>>, {})
     ELSE IF ~ValidateDocument(d, doc)
     THEN Result(d, f, "ValidationError", FALSE, <<>>, {})
     ELSE LET newDoc == NewDocument(d, f, doc)
              finished ==
                Finish(StoreDocument(d, newDoc), f,
                       [type |-> "insert", ids |-> <<newDoc._id>>, isSoftDelete |-> FALSE],
                       <<newDoc._id>>, "insert", TRUE, writes)
          IN finished @@ [rows |-> IF finished.outcome = "ok" THEN <<newDoc>> ELSE <<>>]

\* The loop of insertMany: [db, ok, ids] after the documents of docs, in
\* order, stopping at the first one validateDocument rejects.
RECURSIVE InsertLoop(_, _, _, _)
InsertLoop(d, f, docs, ids) ==
  IF docs = <<>> THEN [db |-> d, ok |-> TRUE, ids |-> ids]
  ELSE IF ~ValidateDocument(d, Head(docs)) THEN [db |-> d, ok |-> FALSE, ids |-> ids]
  ELSE LET newDoc == NewDocument(d, f, Head(docs))
       IN InsertLoop(StoreDocument(d, newDoc), f, Tail(docs), Append(ids, newDoc._id))

\* insertMany
InsertMany(d0, f, docs, writes) ==
  LET d == LoadAll(d0, f)
      loop == InsertLoop(d, f, docs, <<>>)
  IN IF d.inTransaction /\ d.transactionLock # NoLock
     THEN Result(d, f, "TransactionLockError", FALSE, <<>>, {})
     ELSE IF ~loop.ok
     THEN Result(loop.db, f, "ValidationError", FALSE, <<>>, Range(loop.ids))
     ELSE Finish(loop.db, f,
                 [type |-> "insertMany", ids |-> loop.ids, isSoftDelete |-> FALSE],
                 loop.ids, "insert", TRUE, writes)

\* _deepMerge(target, source) for a patch source: a function from some of
\* the field names to their new values.  The value of _revisions is an
\* array, which "target[key] = source[key]" assigns (farusql.js:186).
DeepMerge(target, source) ==
  LET merged == IF "f" \in DOMAIN source THEN [target EXCEPT !.f = source["f"]]
                ELSE target
      named == IF "_id" \in DOMAIN source THEN [merged EXCEPT !._id = source["_id"].v]
               ELSE merged
  IN IF "_revisions" \in DOMAIN source
     THEN [named EXCEPT !._revisions = source["_revisions"]]
     ELSE named

\* The loop of update over matchingDocs: [db, outcome, ids] where ids are
\* the updatedDocs, stopping at the first throw.
RECURSIVE UpdateLoop(_, _, _, _)
UpdateLoop(d, matchingDocs, updates, ids) ==
  IF matchingDocs = <<>> THEN [db |-> d, outcome |-> "ok", ids |-> ids]
  ELSE
    LET doc == Head(matchingDocs)
        oldDoc == doc
        docIndex == FindIndex(d.data, LAMBDA x : x._id = doc._id)
        currentDocInStore ==
          AddRevision(AddTimestamps(DeepMerge(d.data[docIndex], updates)), "update")
        merged == [d EXCEPT !.data[docIndex] = currentDocInStore]
        indexed ==
          [merged EXCEPT
             !.indexes = UpdateIndexesOnUpdate(d.indexes, oldDoc, currentDocInStore),
             !.fullTextIndex =
                IndexDocumentFullText(
                  RemoveDocumentFromFullTextIndex(d.fullTextIndex, oldDoc._id),
                  currentDocInStore, d.fullTextIndexedFields)]
    IN IF d.inTransaction /\ d.transactionLock # NoLock /\ d.transactionLock # doc._id
       THEN [db |-> d, outcome |-> "TransactionLockError", ids |-> ids]
       ELSE IF docIndex = 0
       THEN UpdateLoop(d, Tail(matchingDocs), updates, ids)
       ELSE IF ~ValidateDocument(merged, currentDocInStore)
       THEN [db |-> merged, outcome |-> "ValidationError", ids |-> ids]
       ELSE UpdateLoop(indexed, Tail(matchingDocs), updates,
                       Append(ids, currentDocInStore._id))

\* update after its "await this.get()" returned matchingDocs: the loop, the
\* persist step, the notifications and _resetQuery() (farusql.js:556-600).
UpdateMatching(d, f, matchingDocs, updates, writes) ==
  LET loop == UpdateLoop(d, matchingDocs, updates, <<>>)
      targets == {matchingDocs[i]._id : i \in 1..Len(matchingDocs)}
      finished == Finish(loop.db, f,
                         [type |-> "update", ids |-> loop.ids, isSoftDelete |-> FALSE],
                         loop.ids, "update", TRUE, writes)
  IN IF loop.outcome # "ok"
     THEN Result(loop.db, f, loop.outcome, FALSE, <<>>, targets)
     ELSE [finished EXCEPT
             !.db = IF finished.outcome = "ok" THEN ResetQuery(finished.db)
                    ELSE finished.db,
             !.target = targets]

\* update(query, updates): the argument query is not read; the documents
\* are those get() returns for the current query state.
Update(d0, f, updates, writes) ==
  LET got == Get(LoadAll(d0, f), f)
  IN IF got.outcome # "ok"
     THEN Result(got.db, f, got.outcome, FALSE, <<>>, {})
     ELSE UpdateMatching(got.db, f, got.rows, updates, writes)

\* The soft-delete branch of delete (farusql.js:617-627): [db, found].
SoftDelete(d, id) ==
  LET deleteIndex == FindIndex(d.data, LAMBDA x : x._id = id /\ ~x._deleted)
      marked == AddRevision(AddTimestamps([d.data[deleteIndex] EXCEPT !._deleted = TRUE]),
                            "soft_delete")
  IN IF deleteIndex = 0 THEN [db |-> d, found |-> FALSE, locked |-> FALSE]
     ELSE IF d.inTransaction /\ d.transactionLock # NoLock /\ d.transactionLock # id
     THEN [db |-> d, found |-> TRUE, locked |-> TRUE]
     ELSE [db |-> [d EXCEPT !.data[deleteIndex] = marked], found |-> TRUE,
           locked |-> FALSE]

\* The hard-delete branch of delete (farusql.js:629-639): the document is
\* spliced out before the lock is compared with its id.
HardDelete(d, id) ==
  LET deleteIndex == FindIndex(d.data, LAMBDA x : x._id = id)
      spliced == [d EXCEPT !.data = RemoveAt(d.data, deleteIndex)]
  IN IF deleteIndex = 0 THEN [db |-> d, found |-> FALSE, locked |-> FALSE]
     ELSE IF d.inTransaction /\ d.transactionLock # NoLock /\ d.transactionLock # id
     THEN [db |-> spliced, found |-> TRUE, locked |-> TRUE]
     ELSE [db |-> [spliced EXCEPT
                     !.indexes = UpdateIndexesOnDelete(d.indexes, {id}),
                     !.fullTextIndex =
                        RemoveDocumentFromFullTextIndex(d.fullTextIndex, id)],
           found |-> TRUE, locked |-> FALSE]

\* delete
Delete(d0, f, id, writes) ==
  LET d == LoadAll(d0, f)
      branch == IF d.softDeleteEnabled THEN SoftDelete(d, id) ELSE HardDelete(d, id)
  IN IF d.inTransaction /\ d.transactionLock # NoLock
     THEN Result(d, f, "TransactionLockError", FALSE, <<>>, {id})
     ELSE IF branch.locked
     THEN Result(branch.db, f, "TransactionLockError", FALSE, <<>>, {id})
     ELSE IF ~branch.found
     THEN Result(d, f, "ok", FALSE, <<>>, {id})
     ELSE Finish(branch.db, f,
                 [type |-> "delete", ids |-> <<id>>,
                  isSoftDelete |-> d.softDeleteEnabled],
                 <<id>>, IF d.softDeleteEnabled THEN "soft_delete" ELSE "delete",
                 TRUE, writes)

(***************************************************************************)
(* Transactions.                                                           *)
(***************************************************************************)
\* _endTransaction
EndTransaction(d) ==
  [d EXCEPT !.inTransaction = FALSE, !.transactionLock = NoLock,
            !.transactionLog = <<>>, !.initialState = NoSnapshot]

\* Mutant of BeginTransaction: the check for an active transaction is
\* missing, so a nested call starts over with a new lock, log and snapshot.
BeginTransactionNested(d0, f, id) ==
  LET flagged == [d0 EXCEPT !.inTransaction = TRUE, !.transactionLock = id,
                            !.transactionLog = <<>>]
      d == LoadAll(flagged, f)
  IN Result([d EXCEPT !.initialState =
                [defined |-> TRUE, data |-> d.data, indexes |-> d.indexes,
                 fullTextIndex |-> d.fullTextIndex]],
            f, "ok", TRUE, <<>>, {})

\* beginTransaction(_id), _id = NoLock for the default null
BeginTransaction(d0, f, id) ==
  IF d0.inTransaction
  THEN Result(d0, f, "TransactionStateError", FALSE, <<>>, {})
  ELSE LET flagged == [d0 EXCEPT !.inTransaction = TRUE, !.transactionLock = id,
                                 !.transactionLog = <<>>]
           d == LoadAll(flagged, f)
       IN Result([d EXCEPT !.initialState =
                     [defined |-> TRUE, data |-> d.data, indexes |-> d.indexes,
                      fullTextIndex |-> d.fullTextIndex]],
                 f, "ok", TRUE, <<>>, {})

\* The replay loop of commit (farusql.js:752-763): the notifications
\* _triggerChange delivers for the records of log, in order.
RECURSIVE ReplayLog(_, _)
ReplayLog(d, log) ==
  IF log = <<>> THEN <<>>
  ELSE LET rec == Head(log)
           type == IF rec.type \in {"insert", "insertMany"} THEN "insert"
                   ELSE IF rec.type = "update" THEN "update"
                   ELSE IF rec.isSoftDelete THEN "soft_delete" ELSE "delete"
       IN TriggerChange(d, rec.ids, type) \o ReplayLog(d, Tail(log))

\* Mutant of Commit: the three saves are missing.
CommitUnsaved(d, f, writes) ==
  IF ~d.inTransaction
  THEN Result(d, f, "TransactionStateError", FALSE, <<>>, {})
  ELSE Result(EndTransaction(d), f, "ok", TRUE, ReplayLog(d, d.transactionLog), {})

\* commit: the persist step and the replay run inside try, _endTransaction
\* in finally.
Commit(d, f, writes) ==
  IF ~d.inTransaction
  THEN Result(d, f, "TransactionStateError", FALSE, <<>>, {})
  ELSE IF writes < AllWrites
  THEN Result(d, PersistAll(d, f, writes), "crash", FALSE, <<>>, {})
  ELSE Result(EndTransaction(d), PersistAll(d, f, writes), "ok", TRUE,
              ReplayLog(d, d.transactionLog), {})

\* Mutant of Rollback: the snapshot was taken without _deepClone, so it is
\* the live document list and reverting to it restores nothing.
RollbackAliased(d, f, writes) ==
  LET reverted == [d EXCEPT !.indexes = d.initialState.indexes,
                            !.fullTextIndex = d.initialState.fullTextIndex]
  IN IF ~d.inTransaction
     THEN Result(d, f, "TransactionStateError", FALSE, <<>>, {})
     ELSE IF writes < AllWrites
     THEN Result(reverted, PersistAll(reverted, f, writes), "crash", FALSE, <<>>, {})
     ELSE Result(EndTransaction(reverted), PersistAll(reverted, f, writes), "ok",
                 TRUE, <<>>, {})

\* rollback.  When the three _initial...State properties are absent the
\* assignments leave this.data, this.indexes and this.fullTextIndex
\* undefined (the model shows them empty), JSON.stringify(undefined) is
\* undefined and writeFileSync rejects it with a TypeError: no file is
\* written and _endTransaction is not reached.
Rollback(d, f, writes) ==
  LET reverted == [d EXCEPT !.data = d.initialState.data,
                            !.indexes = d.initialState.indexes,
                            !.fullTextIndex = d.initialState.fullTextIndex]
  IN IF ~d.inTransaction
     THEN Result(d, f, "TransactionStateError", FALSE, <<>>, {})
     ELSE IF ~d.initialState.defined
     THEN Result(reverted, f, "TypeError", FALSE, <<>>, {})
     ELSE IF writes < AllWrites
     THEN Result(reverted, PersistAll(reverted, f, writes), "crash", FALSE, <<>>, {})
     ELSE Result(EndTransaction(reverted), PersistAll(reverted, f, writes), "ok",
                 TRUE, <<>>, {})

\* beginTransaction(_id) when a load throws (_readFile rethrows every error
\* but ENOENT, JSON.parse throws on a damaged file): the flag, the lock and
\* the log are set before the loads (farusql.js:726-728), the first `loads`
\* of the three loads complete, and the snapshot is not taken.
BeginTransactionThrown(d0, f, id, loads) ==
  LET flagged == [d0 EXCEPT !.inTransaction = TRUE, !.transactionLock = id,
                            !.transactionLog = <<>>]
      d == IF loads = 0 THEN flagged
           ELSE IF loads = 1 THEN LoadData(flagged, f)
           ELSE LoadIndexes(LoadData(flagged, f), f)
  IN IF d0.inTransaction
     THEN Result(d0, f, "TransactionStateError", FALSE, <<>>, {})
     ELSE Result(d, f, "ReadError", FALSE, <<>>, {})

\* commit when _writeFile throws in write number writes + 1 of the persist
\* step (writeFileSync or renameSync fails): the error leaves the try block
\* and the finally block runs _endTransaction.
CommitThrown(d, f, writes) ==
  IF ~d.inTransaction
  THEN Result(d, f, "TransactionStateError", FALSE, <<>>, {})
  ELSE Result(EndTransaction(d), PersistAll(d, f, writes), "WriteError", FALSE,
              <<>>, {})

\* rollback when _writeFile throws in write number writes + 1: the error
\* leaves rollback at the save (farusql.js:780-782), before
\* _invalidateCache and _endTransaction.
RollbackThrown(d, f, writes) ==
  LET reverted == [d EXCEPT !.data = d.initialState.data,
                            !.indexes = d.initialState.indexes,
                            !.fullTextIndex = d.initialState.fullTextIndex]
  IN IF ~d.inTransaction
     THEN Result(d, f, "TransactionStateError", FALSE, <<>>, {})
     ELSE IF ~d.initialState.defined
     THEN Result(reverted, f, "TypeError", FALSE, <<>>, {})
     ELSE Result(reverted, PersistAll(reverted, f, writes), "WriteError", FALSE,
                 <<>>, {})

(***************************************************************************)
(* Index creation and configuration.                                       *)
(***************************************************************************)
\* fields.join('_'), the default index name
RECURSIVE IndexName(_)
IndexName(fields) ==
  IF Len(fields) = 1 THEN fields[1] ELSE fields[1] \o "_" \o IndexName(Tail(fields))

\* Mutant of CreateIndex: an index that exists is not emptied first, the
\* loop over this.data pushes into the map it finds.
CreateIndexKeepingMap(d0, f, fields) ==
  LET d == LoadIndexes(LoadData(d0, f), f)
      indexName == IndexName(fields)
      found == IF indexName \in DOMAIN d.indexes THEN d.indexes[indexName].map
               ELSE EmptyMap
      built == [fields |-> fields, map |-> BuildIndexMap(found, d.data, fields)]
      d1 == [d EXCEPT !.indexes =
               [n \in DOMAIN d.indexes \cup {indexName} |->
                  IF n = indexName THEN built ELSE d.indexes[n]]]
  IN Result(d1, SaveIndexes(d1, f, TRUE), "ok", TRUE, <<>>, {indexName})

\* createIndex(fields), with the default name; the target is the name.
CreateIndex(d0, f, fields) ==
  LET d == LoadIndexes(LoadData(d0, f), f)
      indexName == IndexName(fields)
      built == [fields |-> fields, map |-> BuildIndexMap(EmptyMap, d.data, fields)]
      d1 == [d EXCEPT !.indexes =
               [n \in DOMAIN d.indexes \cup {indexName} |->
                  IF n = indexName THEN built ELSE d.indexes[n]]]
  IN Result(d1, SaveIndexes(d1, f, TRUE), "ok", TRUE, <<>>, {indexName})

\* name = null, the default of createIndex's second parameter
NoName == "<null>"

\* createIndex(fields, name): the index is stored under name, or under
\* fields.join('_') when name is null or empty.
CreateIndexNamed(d0, f, fields, name) ==
  LET d == LoadIndexes(LoadData(d0, f), f)
      indexName == IF name \in {NoName, ""} THEN IndexName(fields) ELSE name
      built == [fields |-> fields, map |-> BuildIndexMap(EmptyMap, d.data, fields)]
      d1 == [d EXCEPT !.indexes =
               [n \in DOMAIN d.indexes \cup {indexName} |->
                  IF n = indexName THEN built ELSE d.indexes[n]]]
  IN Result(d1, SaveIndexes(d1, f, TRUE), "ok", TRUE, <<>>, {indexName})

\* createFullTextIndex(fields)
CreateFullTextIndex(d0, f, fields) ==
  LET d == LoadFullTextIndex(LoadData(d0, f), f)
      d1 == [d EXCEPT !.fullTextIndexedFields = fields,
                      !.fullTextIndex =
                         BuildFullTextIndex(EmptyFullTextIndex, d.data, fields)]
  IN Result(d1, SaveFullTextIndex(d1, f, TRUE), "ok", TRUE, <<>>, {})

\* registerValidationCallback
RegisterValidationCallback(d, callback) ==
  [d EXCEPT !.validationCallbacks = Append(d.validationCallbacks, callback)]

\* enableSoftDeletes
EnableSoftDeletes(d, enable) == [d EXCEPT !.softDeleteEnabled = enable]

(***************************************************************************)
(* The inputs the calls are made with.                                     *)
(***************************************************************************)
FValues == {Undefined, Str(""), Str("x")}

\* A document to insert: _id is "" when the caller gives none.
DocInputs == {[_id |-> id, f |-> v] : id \in Ids \cup {""}, v \in FValues}

\* insertMany batches: no document, one or two, without _id.
BatchInputs ==
  {<<>>}
  \cup {<<[_id |-> "", f |-> v]>> : v \in FValues}
  \cup {<<[_id |-> "", f |-> v], [_id |-> "", f |-> w]>> : v \in FValues, w \in FValues}

\* update patches: {}, {f: v} and {_id: id}
PatchInputs ==
  {[k \in {} |-> Undefined]}
  \cup {[k \in {"f"} |-> v] : v \in FValues}
  \cup {[k \in {"_id"} |-> Str(id)] : id \in Ids}

\* update selections: no predicate, where('_id','=',id), where('f','=','x')
QueryInputs ==
  {<<>>, <<[field |-> "f", operator |-> "=", value |-> Str("x")]>>}
  \cup {<<[field |-> "_id", operator |-> "=", value |-> Str(id)]>> : id \in Ids}

\* createIndex calls: a single-field and a composite index
IndexInputs == {<<"f">>, <<"f", "_id">>}

Validators == {"NotEmpty"}

\* A call comes from the call site that began the active transaction
\* ("owner", also every call made while no transaction is active) or from
\* another call site of the same instance ("other").  The store's methods
\* take no caller: no handler reads this tag.
Callers(d) == IF d.inTransaction THEN {"owner", "other"} ELSE {"owner"}

\* How many of the three writes of a persist step complete: all of them,
\* or fewer when the process may stop inside the step.  Inside a
\* transaction insert, insertMany, update and delete have no persist step.
NoCrash == {AllWrites}
MayCrash == 0..AllWrites
WriteInputs(d, W) == IF d.inTransaction THEN {AllWrites} ELSE W

WithinBounds(d) ==
  /\ Len(d.data) <= MaxDocs
  /\ Len(d.transactionLog) <= MaxLog
  /\ \A i \in 1..Len(d.data) :
        Len(d.data[i]._revisions) <= MaxRevs + (IF d.data[i]._deleted THEN 1 ELSE 0)

(***************************************************************************)
(* The specification.  last records the call made last: its name, its      *)
(* caller, how it ended, what it returned (ret for a boolean, rows for     *)
(* documents, n for a number), the notifications it delivered, the ids it  *)
(* targeted and the length of the transaction log it found.                *)
(***************************************************************************)
\* The documents, secondary indexes and full-text index of a store.
Memory(d) ==
  [data |-> d.data, indexes |-> d.indexes, fullTextIndex |-> d.fullTextIndex]

\* The calls in flight on the instance: none, when every call is awaited
\* before the next one is made.  db and fs are the store and the files
\* before the first of the calls in flight was made.
Idle == [db |-> NewStore, fs |-> NoFiles, chains |-> <<>>]

\* The objects that are reachable both from the store and from its caller.
\* logged[r] lists the documents of record r of transactionLog: at is the
\* position in this.data of the object the record refers to, 0 when it
\* refers to an object of its own, whose value is doc.  shared[k] is the
\* set of the <<r, i>> for which document i of record r is the very object
\* last.rows[k] that the last call returned.
NoHeap == [logged |-> <<>>, shared |-> <<>>]

\* The documents, the number and the heap a call leaves, when it does.
Returns(r, slot, none) == IF slot \in DOMAIN r THEN r[slot] ELSE none

Call(op, caller, r) ==
  /\ last.outcome # "crash"
  /\ calls < MaxCalls
  /\ calls' = calls + 1
  /\ WithinBounds(r.db)
  /\ db' = r.db
  /\ fs' = r.fs
  /\ last' = [op |-> op, caller |-> caller, outcome |-> r.outcome, ret |-> r.ret,
              rows |-> Returns(r, "rows", <<>>), n |-> Returns(r, "n", 0),
              notified |-> r.notified, target |-> r.target,
              logged |-> Len(db.transactionLog)]
  /\ begun' = IF op = "beginTransaction" /\ r.outcome = "ok" THEN Memory(r.db)
              ELSE IF r.db.inTransaction THEN begun
              ELSE NoFiles
  /\ pending' = pending
  /\ heap' = Returns(r, "heap", heap)

Configure(op, d) ==
  Call(op, "owner", Result(d, fs, "ok", TRUE, <<>>, {}))

\* The store after construction and MaxListeners calls of onChange.
Init ==
  /\ db = [NewStore EXCEPT !.changeListeners = MaxListeners]
  /\ fs = NoFiles
  /\ calls = 0
  /\ last = [op |-> "new", caller |-> "owner", outcome |-> "ok", ret |-> TRUE,
             rows |-> <<>>, n |-> 0,
             notified |-> <<>>, target |-> {}, logged |-> 0]
  /\ begun = NoFiles
  /\ pending = Idle
  /\ heap = NoHeap

DoInsert(W) ==
  \E doc \in DocInputs, writes \in WriteInputs(db, W), caller \in Callers(db) :
     /\ doc._id = "" => CanGenerateId(LoadAll(db, fs), fs)
     /\ Call("insert", caller, Insert(db, fs, doc, writes))

DoInsertMany(W) ==
  \E docs \in BatchInputs, writes \in WriteInputs(db, W), caller \in Callers(db) :
     /\ Len(docs) <= Cardinality(Ids \ UsedIds(LoadAll(db, fs), fs))
     /\ Call("insertMany", caller, InsertMany(db, fs, docs, writes))

DoUpdate(W) ==
  \E wheres \in QueryInputs, updates \in PatchInputs,
     writes \in WriteInputs(db, W), caller \in Callers(db) :
     Call("update", caller, Update(WhereAll(db, wheres), fs, updates, writes))

DoDelete(W) ==
  \E id \in Ids, writes \in WriteInputs(db, W), caller \in Callers(db) :
     Call("delete", caller, Delete(db, fs, id, writes))

DoBeginTransaction ==
  \E id \in Ids \cup {NoLock} :
     Call("beginTransaction", "owner", BeginTransaction(db, fs, id))

DoCommit(W) ==
  \E writes \in W : Call("commit", "owner", Commit(db, fs, writes))

DoRollback(W) ==
  \E writes \in W : Call("rollback", "owner", Rollback(db, fs, writes))

DoCreateIndex ==
  \E fields \in IndexInputs : Call("createIndex", "owner", CreateIndex(db, fs, fields))

DoCreateFullTextIndex ==
  Call("createFullTextIndex", "owner", CreateFullTextIndex(db, fs, {"f"}))

DoRegisterValidationCallback ==
  \E callback \in Validators :
     /\ callback \notin Range(db.validationCallbacks)
     /\ Configure("registerValidationCallback", RegisterValidationCallback(db, callback))

DoEnableSoftDeletes ==
  \E enable \in BOOLEAN :
     /\ enable # db.softDeleteEnabled
     /\ Configure("enableSoftDeletes", EnableSoftDeletes(db, enable))

\* The process stopped inside a persist step; a new instance is
\* constructed over the files it left.
Restart ==
  /\ last.outcome = "crash"
  /\ db' = [NewStore EXCEPT !.changeListeners = MaxListeners]
  /\ fs' = fs
  /\ calls' = calls
  /\ last' = [op |-> "new", caller |-> "owner", outcome |-> "ok", ret |-> TRUE,
              rows |-> <<>>, n |-> 0,
              notified |-> <<>>, target |-> {}, logged |-> 0]
  /\ begun' = NoFiles
  /\ pending' = pending
  /\ heap' = heap

Next ==
  \/ DoInsert(NoCrash)
  \/ DoInsertMany(NoCrash)
  \/ DoUpdate(NoCrash)
  \/ DoDelete(NoCrash)
  \/ DoBeginTransaction
  \/ DoCommit(NoCrash)
  \/ DoRollback(NoCrash)
  \/ DoCreateIndex
  \/ DoCreateFullTextIndex
  \/ DoRegisterValidationCallback
  \/ DoEnableSoftDeletes

Spec == Init /\ [][Next]_vars

\* The same calls when the process may stop inside any persist step.
NextCrash ==
  \/ DoInsert(MayCrash)
  \/ DoInsertMany(MayCrash)
  \/ DoUpdate(MayCrash)
  \/ DoDelete(MayCrash)
  \/ DoBeginTransaction
  \/ DoCommit(MayCrash)
  \/ DoRollback(MayCrash)
  \/ DoCreateIndex
  \/ DoCreateFullTextIndex
  \/ DoRegisterValidationCallback
  \/ DoEnableSoftDeletes
  \/ Restart

SpecCrash == Init /\ [][NextCrash]_vars

(***************************************************************************)
(* A store instance constructed over the files an earlier instance left:    *)
(* that instance enabled soft deletes, inserted one document and, in half   *)
(* of the cases, deleted it, which persisted the tombstone.                 *)
(***************************************************************************)
LeftFiles(id, deleted) ==
  LET constructed == [NewStore EXCEPT !.changeListeners = MaxListeners]
      inserted == Insert(EnableSoftDeletes(constructed, TRUE), NoFiles,
                         [_id |-> id, f |-> Str("x")], AllWrites)
  IN IF deleted THEN Delete(inserted.db, inserted.fs, id, AllWrites).fs
     ELSE inserted.fs

InitReopen ==
  \E id \in Ids, deleted \in BOOLEAN :
     /\ db = [NewStore EXCEPT !.changeListeners = MaxListeners]
     /\ fs = LeftFiles(id, deleted)
     /\ calls = 0
     /\ last = [op |-> "new", caller |-> "owner", outcome |-> "ok", ret |-> TRUE,
                rows |-> <<>>, n |-> 0,
                notified |-> <<>>, target |-> {}, logged |-> 0]
     /\ begun = NoFiles
     /\ pending = Idle
     /\ heap = NoHeap

SpecReopen == InitReopen /\ [][Next]_vars

(***************************************************************************)
(* Queries on a prepared store.  The store is what the calls                *)
(* enableSoftDeletes(soft), insertMany(docs) and createIndex(['f']) leave,  *)
(* for stored values of several types; the steps are the builder calls and  *)
(* the terminal calls get, findOne, findById, count and update, and delete. *)
(***************************************************************************)
StoredValues == {Null, Str("NULL"), Str(""), Bool(FALSE), Num("1")}

QueryValues == {Null, Str("NULL"), Bool(FALSE), Bool(TRUE), Str("constructor")}

SeedBatches ==
  {<<>>}
  \cup {<<[_id |-> "", f |-> v]>> : v \in StoredValues}
  \cup {<<[_id |-> "", f |-> v], [_id |-> "", f |-> w]>> :
          v \in StoredValues, w \in StoredValues}

Prepared(docs, indexed, soft) ==
  LET constructed == [NewStore EXCEPT !.changeListeners = MaxListeners]
      inserted == InsertMany(EnableSoftDeletes(constructed, soft), NoFiles, docs,
                             AllWrites)
  IN IF indexed THEN CreateIndex(inserted.db, inserted.fs, <<"f">>) ELSE inserted

InitQuery ==
  \E docs \in SeedBatches, indexed \in BOOLEAN, soft \in BOOLEAN :
     /\ db = Prepared(docs, indexed, soft).db
     /\ fs = Prepared(docs, indexed, soft).fs
     /\ calls = 0
     /\ last = [op |-> "new", caller |-> "owner", outcome |-> "ok", ret |-> TRUE,
                rows |-> <<>>, n |-> 0,
                notified |-> <<>>, target |-> {}, logged |-> 0]
     /\ begun = NoFiles
     /\ pending = Idle
     /\ heap = NoHeap

\* A prepared store takes MaxQueryCalls calls.
Queried == calls < MaxQueryCalls

\* A terminal call: what it returned is the rows (count: their number).
Terminal(op, got, rows, n, target) ==
  /\ Queried
  /\ Call(op, "owner", Result(got.db, fs, got.outcome, TRUE, <<>>, target)
                          @@ [rows |-> rows, n |-> n])

\* A builder call.
Builder(op, d) ==
  /\ Queried
  /\ Configure(op, d)

DoWhere ==
  \E value \in QueryValues :
     /\ Len(db.wheres) < MaxWheres
     /\ Builder("where", Where(db, "f", "=", value))

DoLimit == Builder("limit", Limit(db, 1))

DoSkip == Builder("skip", Skip(db, 1))

DoOrderBy == Builder("orderBy", OrderBy(db, "_id", "desc"))

DoWithTrashed == Builder("withTrashed", WithTrashed(db))

DoOnlyDeleted == Builder("onlyDeleted", OnlyDeleted(db))

DoGet == Terminal("get", Get(db, fs), Get(db, fs).rows, 0, {})

DoFindOne == Terminal("findOne", FindOne(db, fs), FindOne(db, fs).rows, 0, {})

DoFindById ==
  \E id \in Ids :
     Terminal("findById", FindById(db, fs, id), FindById(db, fs, id).rows, 0, {id})

DoCount == Terminal("count", Count(db, fs), <<>>, Len(Count(db, fs).rows), {})

\* paginate({page, perPage}); last.rows is the data and last.n the
\* totalCount of the object returned.
DoPaginate ==
  \E page \in 0..MaxPage, perPage \in 0..MaxPage :
     Terminal("paginate", Paginate(db, fs, page, perPage),
              Paginate(db, fs, page, perPage).rows,
              Paginate(db, fs, page, perPage).totalCount, {})

\* update(query, {}) with the query state as the builder calls left it
DoUpdateQueried ==
  /\ Queried
  /\ Call("update", "owner", Update(db, fs, [k \in {} |-> Undefined], AllWrites))

\* delete(id) on a prepared store
DoDeleteQueried ==
  /\ Queried
  /\ DoDelete(NoCrash)

NextQuery ==
  \/ DoWhere
  \/ DoLimit
  \/ DoSkip
  \/ DoOrderBy
  \/ DoWithTrashed
  \/ DoOnlyDeleted
  \/ DoGet
  \/ DoFindOne
  \/ DoFindById
  \/ DoCount
  \/ DoPaginate
  \/ DoUpdateQueried
  \/ DoDeleteQueried

SpecQuery == InitQuery /\ [][NextQuery]_vars

(***************************************************************************)
(* Full-text search on a prepared store: what enableSoftDeletes(soft),      *)
(* createFullTextIndex(['f']) and insertMany(docs) leave, for texts of one  *)
(* and two words; the steps are fullTextSearch, withTrashed, update,        *)
(* delete and registerValidationCallback.                                   *)
(***************************************************************************)
TextValues == {Str("x"), Str("y"), Str("x y")}

SearchQueries == {Str(""), Str("x"), Str("X y"), Str("z")}

TextBatches ==
  {<<>>}
  \cup {<<[_id |-> "", f |-> v]>> : v \in TextValues}
  \cup {<<[_id |-> "", f |-> v], [_id |-> "", f |-> w]>> :
          v \in TextValues, w \in TextValues}

PreparedText(docs, soft) ==
  LET constructed == [NewStore EXCEPT !.changeListeners = MaxListeners]
      declared == CreateFullTextIndex(EnableSoftDeletes(constructed, soft), NoFiles,
                                      {"f"})
  IN InsertMany(declared.db, declared.fs, docs, AllWrites)

InitSearch ==
  \E docs \in TextBatches, soft \in BOOLEAN :
     /\ db = PreparedText(docs, soft).db
     /\ fs = PreparedText(docs, soft).fs
     /\ calls = 0
     /\ last = [op |-> "new", caller |-> "owner", outcome |-> "ok", ret |-> TRUE,
                rows |-> <<>>, n |-> 0,
                notified |-> <<>>, target |-> {}, logged |-> 0]
     /\ begun = NoFiles
     /\ pending = Idle
     /\ heap = NoHeap

\* fullTextSearch(query); last.target holds the query text.
DoFullTextSearch ==
  \E query \in SearchQueries :
     Terminal("fullTextSearch", FullTextSearch(db, fs, query),
              FullTextSearch(db, fs, query).rows, 0, {query.v})

\* update(query, updates) on a prepared store
DoUpdateSearched ==
  /\ Queried
  /\ DoUpdate(NoCrash)

\* registerValidationCallback on a prepared store
DoRegisterSearched ==
  /\ Queried
  /\ DoRegisterValidationCallback

NextSearch ==
  \/ DoFullTextSearch
  \/ DoWithTrashed
  \/ DoUpdateSearched
  \/ DoDeleteQueried
  \/ DoRegisterSearched

SpecSearch == InitSearch /\ [][NextSearch]_vars

(***************************************************************************)
(* Ordering.  The store is what insertMany(docs) leaves for up to           *)
(* MaxOrdered documents whose f is missing, null, or a value of one type:   *)
(* the numbers 0 and 1, or the strings 'a' and 'b'.  The steps are          *)
(* orderBy('f', direction) and get().                                       *)
(***************************************************************************)
MaxOrdered == 3

OrderIdPool == <<"a", "b", "c", "d", "e">>

NumberValues == {Undefined, Null, Num("0"), Num("1")}

LetterValues == {Undefined, Null, Str("a"), Str("b")}

\* The batches of n documents with values from V, with the ids of the pool.
OrderBatches(V) ==
  UNION {{[i \in 1..n |-> [_id |-> OrderIdPool[i], f |-> vs[i]]] : vs \in [1..n -> V]} :
           n \in 0..MaxOrdered}

InitOrder ==
  \E docs \in OrderBatches(NumberValues) \cup OrderBatches(LetterValues) :
     LET constructed == [NewStore EXCEPT !.changeListeners = MaxListeners]
         inserted == InsertMany(constructed, NoFiles, docs, AllWrites)
     IN /\ db = inserted.db
        /\ fs = inserted.fs
        /\ calls = 0
        /\ last = [op |-> "new", caller |-> "owner", outcome |-> "ok", ret |-> TRUE,
                   rows |-> <<>>, n |-> 0,
                   notified |-> <<>>, target |-> {}, logged |-> 0]
        /\ begun = NoFiles
        /\ pending = Idle
        /\ heap = NoHeap

\* orderBy('f', direction)
DoOrderByField ==
  \E direction \in {"asc", "desc"} :
     /\ db' = OrderBy(db, "f", direction)
     /\ last' = [last EXCEPT !.op = "orderBy", !.outcome = "ok", !.rows = <<>>]
     /\ UNCHANGED <<fs, calls, begun, pending, heap>>

\* get()
DoGetOrdered ==
  /\ db' = Get(db, fs).db
  /\ last' = [last EXCEPT !.op = "get", !.outcome = Get(db, fs).outcome,
                          !.rows = Get(db, fs).rows]
  /\ UNCHANGED <<fs, calls, begun, pending, heap>>

NextOrder ==
  \/ DoOrderByField
  \/ DoGetOrdered

SpecOrder == InitOrder /\ [][NextOrder]_vars

(***************************************************************************)
(* Calls in flight.  A call chain is builder calls followed by a terminal   *)
(* call; the builder calls are synchronous, and an async method runs up to  *)
(* its first await when it is called and from one await to the next each    *)
(* time it is resumed.  When a chain is made without awaiting the one       *)
(* before, its builder calls and the start of its terminal call run before  *)
(* the earlier call is resumed.  The store is a prepared one, on which the  *)
(* loads change nothing, so a call is the segments that read or write the   *)
(* instance: get and count have one (their body), update has two (the body  *)
(* of its get(), then its loop, persist step and _resetQuery()).            *)
(***************************************************************************)
MaxChains == 2

OverlapValues == {Str(""), Num("1")}

\* The builder calls of a chain: none, or where('f', '=', v).
ChainFilters ==
  {<<>>} \cup {<<[field |-> "f", operator |-> "=", value |-> v]>> : v \in OverlapValues}

\* update(query, {f: 'x'})
OverlapPatch == [k \in {"f"} |-> Str("x")]

\* What the promise of a terminal call settled with.
Answer(outcome, rows, n) == [outcome |-> outcome, rows |-> rows, n |-> n]

\* updatedDocs: the stored documents with the ids of matchingDocs.
UpdatedDocs(d, matchingDocs) ==
  [k \in 1..Len(matchingDocs) |->
     d.data[FindIndex(d.data, LAMBDA x : x._id = matchingDocs[k]._id)]]

InitOverlap ==
  \E docs \in SeedBatches, indexed \in BOOLEAN :
     /\ db = Prepared(docs, indexed, FALSE).db
     /\ fs = Prepared(docs, indexed, FALSE).fs
     /\ calls = 0
     /\ last = [op |-> "new", caller |-> "owner", outcome |-> "ok", ret |-> TRUE,
                rows |-> <<>>, n |-> 0,
                notified |-> <<>>, target |-> {}, logged |-> 0]
     /\ begun = NoFiles
     /\ pending = Idle
     /\ heap = NoHeap

\* chain.pc after the step, and the chain's other fields.
Advance(i, pc, matchingDocs, answer) ==
  pending' = [pending EXCEPT !.chains[i] =
                [@ EXCEPT !.pc = pc, !.matchingDocs = matchingDocs,
                          !.answer = answer]]

\* The builder calls of a chain and the call of its terminal method, which
\* runs to its first await: "await this.loadData()".
StartChain ==
  \E op \in {"get", "count", "update"}, wheres \in ChainFilters :
     /\ Len(pending.chains) < MaxChains
     /\ db' = LoadData(WhereAll(db, wheres), fs)
     /\ pending' =
          [db |-> IF pending.chains = <<>> THEN db ELSE pending.db,
           fs |-> IF pending.chains = <<>> THEN fs ELSE pending.fs,
           chains |-> Append(pending.chains,
                             [op |-> op, wheres |-> wheres, pc |-> "started",
                              matchingDocs |-> <<>>,
                              answer |-> Answer("pending", <<>>, 0)])]
     /\ UNCHANGED <<fs, last, calls, begun, heap>>

\* get() resumed: its body, to the return.
ResumeGet ==
  \E i \in 1..Len(pending.chains) :
     LET got == Get(db, fs)
     IN /\ pending.chains[i].op = "get"
        /\ pending.chains[i].pc = "started"
        /\ db' = got.db
        /\ Advance(i, "done", <<>>, Answer(got.outcome, got.rows, 0))
        /\ UNCHANGED <<fs, last, calls, begun, heap>>

\* count() resumed: its body, to the return.
ResumeCount ==
  \E i \in 1..Len(pending.chains) :
     LET got == Count(db, fs)
     IN /\ pending.chains[i].op = "count"
        /\ pending.chains[i].pc = "started"
        /\ db' = got.db
        /\ Advance(i, "done", <<>>, Answer(got.outcome, <<>>, Len(got.rows)))
        /\ UNCHANGED <<fs, last, calls, begun, heap>>

\* update() resumed up to the return of its "await this.get()".
ResumeUpdateGet ==
  \E i \in 1..Len(pending.chains) :
     LET got == Get(LoadAll(db, fs), fs)
     IN /\ pending.chains[i].op = "update"
        /\ pending.chains[i].pc = "started"
        /\ db' = got.db
        /\ IF got.outcome = "ok"
           THEN Advance(i, "got", got.rows, pending.chains[i].answer)
           ELSE Advance(i, "done", <<>>, Answer(got.outcome, <<>>, 0))
        /\ UNCHANGED <<fs, last, calls, begun, heap>>

\* update() resumed with matchingDocs: the rest of the method.
ResumeUpdateLoop ==
  \E i \in 1..Len(pending.chains) :
     LET r == UpdateMatching(db, fs, pending.chains[i].matchingDocs, OverlapPatch,
                             AllWrites)
     IN /\ pending.chains[i].op = "update"
        /\ pending.chains[i].pc = "got"
        /\ db' = r.db
        /\ fs' = r.fs
        /\ Advance(i, "done", <<>>,
                   Answer(r.outcome,
                          UpdatedDocs(r.db, pending.chains[i].matchingDocs), 0))
        /\ UNCHANGED <<last, calls, begun, heap>>

NextOverlap ==
  \/ StartChain
  \/ ResumeGet
  \/ ResumeCount
  \/ ResumeUpdateGet
  \/ ResumeUpdateLoop

SpecOverlap == InitOverlap /\ [][NextOverlap]_vars

(***************************************************************************)
(* insert followed by findById of the id insert returned, over the         *)
(* collections that insert, delete and enableSoftDeletes build.            *)
(***************************************************************************)
\* findById(i) for the id i of the document the last call, an insert,
\* returned.
DoFindInserted ==
  /\ last.op = "insert"
  /\ last.outcome = "ok"
  /\ LET id == last.rows[1]._id
         got == FindById(db, fs, id)
     IN Call("findById", "owner",
             Result(got.db, fs, got.outcome, TRUE, <<>>, {id}) @@ [rows |-> got.rows])

NextRoundTrip ==
  \/ DoInsert(NoCrash)
  \/ DoDelete(NoCrash)
  \/ DoEnableSoftDeletes
  \/ DoFindInserted

SpecRoundTrip == Init /\ [][NextRoundTrip]_vars

(***************************************************************************)
(* createIndex called again on an index that inserts, updates and deletes  *)
(* have maintained.  For a createIndex call last.n counts the createIndex  *)
(* calls made in a row with the same fields, this one included.            *)
(***************************************************************************)
DoCreateIndexAgain ==
  \E fields \in IndexInputs :
     LET inARow == IF last.op = "createIndex" /\ last.target = {IndexName(fields)}
                   THEN last.n + 1 ELSE 1
     IN Call("createIndex", "owner", CreateIndex(db, fs, fields) @@ [n |-> inARow])

NextReindex ==
  \/ DoInsert(NoCrash)
  \/ DoUpdate(NoCrash)
  \/ DoDelete(NoCrash)
  \/ DoCreateIndexAgain

SpecReindex == Init /\ [][NextReindex]_vars

(***************************************************************************)
(* Mutations with MaxThrowers change listeners registered, any of which    *)
(* may be a callback that throws.                                          *)
(***************************************************************************)
MaxThrowers == 2

InitListeners ==
  /\ \E throwing \in SUBSET (1..MaxThrowers) :
        db = [NewStore EXCEPT !.changeListeners = MaxThrowers, !.throwing = throwing]
  /\ fs = NoFiles
  /\ calls = 0
  /\ last = [op |-> "new", caller |-> "owner", outcome |-> "ok", ret |-> TRUE,
             rows |-> <<>>, n |-> 0,
             notified |-> <<>>, target |-> {}, logged |-> 0]
  /\ begun = NoFiles
  /\ pending = Idle
  /\ heap = NoHeap

NextListeners ==
  \/ DoInsert(NoCrash)
  \/ DoUpdate(NoCrash)
  \/ DoDelete(NoCrash)
  \/ DoEnableSoftDeletes

SpecListeners == InitListeners /\ [][NextListeners]_vars

(***************************************************************************)
(* The caller changes a document object that a call returned to it.  No    *)
(* encryption key is set, so _encryptDocument and _decryptDocument give    *)
(* back the object they are given (farusql.js:681, :694).  Documents are   *)
(* inserted without _id, so ids are unique and a position in this.data     *)
(* names one object for as long as nothing is deleted.                     *)
(***************************************************************************)
\* The value of document i of log record r.
LoggedDoc(d, h, r, i) ==
  LET entry == h.logged[r][i]
  IN IF entry.at > 0 THEN d.data[entry.at] ELSE entry.doc

\* The documents the records of the transaction log hold.
LoggedDocs(d, h) ==
  [r \in 1..Len(h.logged) |->
     [i \in 1..Len(h.logged[r]) |-> LoggedDoc(d, h, r, i)]]

\* The sequences of ss, one after the other.
RECURSIVE Concat(_)
Concat(ss) == IF ss = <<>> THEN <<>> ELSE Head(ss) \o Concat(Tail(ss))

\* A record that refers to objects of its own.
OwnObjects(docs) == [i \in 1..Len(docs) |-> [at |-> 0, doc |-> docs[i]]]

\* The heap after a call that returned rows: inside a transaction the
\* record entries is appended to the log, and returned object k is
\* document k of that record when the record holds the objects returned.
Logging(r, rows, entries, returnedAreLogged) ==
  IF r.outcome = "ok" /\ r.db.inTransaction
  THEN [logged |-> Append(heap.logged, entries),
        shared |-> [k \in 1..Len(rows) |->
                      IF returnedAreLogged THEN {<<Len(heap.logged) + 1, k>>} ELSE {}]]
  ELSE [logged |-> heap.logged, shared |-> [k \in 1..Len(rows) |-> {}]]

\* A call that returns documents and may log them.
Returning(op, r, rows, entries, returnedAreLogged) ==
  LET given == IF r.outcome = "ok" THEN rows ELSE <<>>
  IN Call(op, "owner",
          [db |-> r.db, fs |-> r.fs, outcome |-> r.outcome, ret |-> r.ret,
           notified |-> r.notified, target |-> r.target, rows |-> given,
           heap |-> Logging(r, given, entries, returnedAreLogged)])

\* beginTransaction(): the log is emptied.
DoBeginSnapshot ==
  Call("beginTransaction", "owner",
       BeginTransaction(db, fs, NoLock) @@ [heap |-> NoHeap])

\* insert(doc): the record holds encryptedDoc, the object pushed on
\* this.data (farusql.js:490, :502); a clone is returned (farusql.js:506).
DoInsertSnapshot ==
  \E v \in FValues :
     LET r == Insert(db, fs, [_id |-> "", f |-> v], AllWrites)
     IN /\ CanGenerateId(LoadAll(db, fs), fs)
        /\ Returning("insert", r, r.rows,
                     <<[at |-> Len(r.db.data), doc |-> r.db.data[Len(r.db.data)]]>>,
                     FALSE)

\* insertMany(docs): insertedDocs holds a clone of each stored document;
\* the record holds insertedDocs.map(d => this._encryptDocument(d)), the
\* objects of insertedDocs themselves, and insertedDocs is returned
\* (farusql.js:532, :541, :545).
DoInsertManySnapshot ==
  \E docs \in BatchInputs :
     LET d == LoadAll(db, fs)
         r == InsertMany(db, fs, docs, AllWrites)
         insertedDocs == SubSeq(r.db.data, Len(d.data) + 1, Len(r.db.data))
     IN /\ Len(docs) <= Cardinality(Ids \ UsedIds(d, fs))
        /\ Returning("insertMany", r, insertedDocs, OwnObjects(insertedDocs), TRUE)

\* update({}, {f: v}): updatedDocs holds a clone of each updated document;
\* the record holds updatedDocs.map(d => this._encryptDocument(d)) and
\* updatedDocs is returned (farusql.js:583, :595, :600).
DoUpdateSnapshot ==
  \E v \in FValues :
     \E d \in {LoadAll(db, fs)}, r \in {Update(db, fs, [k \in {"f"} |-> v], AllWrites)} :
        \E at \in {{i \in 1..Len(d.data) : r.db.data[i] # d.data[i]}} :
           \E updatedDocs \in {AtPositions(r.db.data, at, 1)} :
              Returning("update", r, updatedDocs, OwnObjects(updatedDocs), TRUE)

\* get(): clones of the documents (farusql.js:343), nothing is logged.
DoGetSnapshot ==
  LET got == Get(db, fs)
  IN Call("get", "owner",
          Result(got.db, fs, got.outcome, TRUE, <<>>, {})
            @@ [rows |-> got.rows,
                heap |-> [heap EXCEPT !.shared = [k \in 1..Len(got.rows) |-> {}]]])

\* The caller assigns to field f of document k that the last call
\* returned: every record document that is this object changes with it.
Assigned(v) == IF v = Str("x") THEN Str("") ELSE Str("x")

DoAssignReturned ==
  \E k \in 1..Len(last.rows) :
     LET changed == [last.rows[k] EXCEPT !.f = Assigned(last.rows[k].f)]
     IN /\ last.op \in {"insert", "insertMany", "update", "get"}
        /\ calls < MaxCalls
        /\ calls' = calls + 1
        /\ last' = [last EXCEPT !.op = "assign", !.rows[k] = changed]
        /\ heap' = [heap EXCEPT !.logged =
                      [r \in 1..Len(heap.logged) |->
                         [i \in 1..Len(heap.logged[r]) |->
                            IF <<r, i>> \in heap.shared[k]
                            THEN [heap.logged[r][i] EXCEPT !.doc = changed]
                            ELSE heap.logged[r][i]]]]
        /\ UNCHANGED <<db, fs, begun, pending>>

\* commit(): last.rows lists the documents the replay loop hands to
\* _triggerChange, in order (farusql.js:752-763).
DoCommitSnapshot ==
  Call("commit", "owner",
       Commit(db, fs, AllWrites)
         @@ [rows |-> Concat(LoggedDocs(db, heap)), heap |-> NoHeap])

NextSnapshot ==
  \/ DoBeginSnapshot
  \/ DoInsertSnapshot
  \/ DoInsertManySnapshot
  \/ DoUpdateSnapshot
  \/ DoGetSnapshot
  \/ DoAssignReturned
  \/ DoCommitSnapshot

SpecSnapshot == Init /\ [][NextSnapshot]_vars

(***************************************************************************)
(* Predicates.  The store is what enableSoftDeletes(soft), insertMany of    *)
(* two documents and, in half of the cases, delete of the first of them     *)
(* leave; no index is created.  A call chain of where, orWhere, whereIn,    *)
(* whereLike, limit, skip, orderBy and withTrashed ends with get().  For a  *)
(* get call last.n is the number of predicates it was made with and         *)
(* last.ret tells whether one of them was an OR-group.                      *)
(***************************************************************************)
MaxPredicates == 2

FirstValues == {Null, Num("1")}

SecondValues == {Str("a"), Str("Ab")}

OperandValues == {Num("1"), Str("a")}

\* "~" stands for an operator _testCondition has no case for.
Operators == {"=", "!=", ">", ">=", "<", "<=", "~"}

Comparison(operator, value) == [field |-> "f", operator |-> operator, value |-> value]

OrGroups ==
  {<<>>,
   <<Comparison("=", Null)>>,
   <<Comparison("==", Num("1")), Comparison("~", Null)>>,
   <<Comparison("<", Str("a")), Comparison("<>", Str("a"))>>}

InLists == {<<>>, <<Num("1"), Str("a")>>}

LikeValues == {Str("A"), Str("")}

PreparedPlain(v, w, soft, trashed) ==
  LET constructed == [NewStore EXCEPT !.changeListeners = MaxListeners]
      inserted == InsertMany(EnableSoftDeletes(constructed, soft), NoFiles,
                             <<[_id |-> "", f |-> v], [_id |-> "", f |-> w]>>,
                             AllWrites)
  IN IF trashed
     THEN Delete(inserted.db, inserted.fs, inserted.db.data[1]._id, AllWrites)
     ELSE inserted

InitPredicates ==
  \E v \in FirstValues, w \in SecondValues, soft \in BOOLEAN, trashed \in BOOLEAN :
     /\ db = PreparedPlain(v, w, soft, trashed).db
     /\ fs = PreparedPlain(v, w, soft, trashed).fs
     /\ calls = 0
     /\ last = [op |-> "new", caller |-> "owner", outcome |-> "ok", ret |-> TRUE,
                rows |-> <<>>, n |-> 0,
                notified |-> <<>>, target |-> {}, logged |-> 0]
     /\ begun = NoFiles
     /\ pending = Idle
     /\ heap = NoHeap

\* One more predicate may be pushed.
Pushable == Len(db.wheres) < MaxPredicates

DoWhereOperator ==
  \E operator \in Operators, value \in OperandValues :
     /\ Pushable
     /\ Configure("where", Where(db, "f", operator, value))

DoOrWhere ==
  \E conditions \in OrGroups :
     /\ Pushable
     /\ Configure("orWhere", OrWhere(db, conditions))

DoWhereIn ==
  \E values \in InLists :
     /\ Pushable
     /\ Configure("whereIn", WhereIn(db, "f", values))

DoWhereLike ==
  \E value \in LikeValues :
     /\ Pushable
     /\ Configure("whereLike", WhereLike(db, "f", value))

DoLimitTo == \E count \in 0..MaxDocs : Configure("limit", Limit(db, count))

DoSkipOver == \E count \in 0..MaxDocs : Configure("skip", Skip(db, count))

DoOrderById ==
  \E direction \in {"asc", "desc"} :
     Configure("orderBy", OrderBy(db, "_id", direction))

DoWithTrashedPlain == Configure("withTrashed", WithTrashed(db))

DoGetMatching ==
  LET got == Get(db, fs)
  IN Call("get", "owner",
          Result(got.db, fs, got.outcome,
                 \E i \in 1..Len(db.wheres) : IsGroup(db.wheres[i]),
                 <<>>, {})
            @@ [rows |-> got.rows, n |-> Len(db.wheres)])

NextPredicates ==
  \/ DoWhereOperator
  \/ DoOrWhere
  \/ DoWhereIn
  \/ DoWhereLike
  \/ DoLimitTo
  \/ DoSkipOver
  \/ DoOrderById
  \/ DoWithTrashedPlain
  \/ DoGetMatching

SpecPredicates == InitPredicates /\ [][NextPredicates]_vars

(***************************************************************************)
(* Queries over indexes of any name.  The store is what insertMany of two   *)
(* documents leaves; createIndex is called with one or two fields and with  *)
(* the default name, the name of a field or a name of its own, and where    *)
(* takes equality predicates on f and on _id.                               *)
(***************************************************************************)
IndexedValues == {Str("a"), Str("x")}

SoughtValues == {Str("a"), Str("b"), Str("x")}

IndexFields == {<<"f">>, <<"_id">>, <<"f", "_id">>}

IndexNames == {NoName, "f", "byF"}

InitIndexes ==
  \E v \in IndexedValues, w \in IndexedValues :
     /\ db = PreparedPlain(v, w, FALSE, FALSE).db
     /\ fs = PreparedPlain(v, w, FALSE, FALSE).fs
     /\ calls = 0
     /\ last = [op |-> "new", caller |-> "owner", outcome |-> "ok", ret |-> TRUE,
                rows |-> <<>>, n |-> 0,
                notified |-> <<>>, target |-> {}, logged |-> 0]
     /\ begun = NoFiles
     /\ pending = Idle
     /\ heap = NoHeap

DoCreateIndexNamed ==
  \E fields \in IndexFields, name \in IndexNames :
     Call("createIndex", "owner", CreateIndexNamed(db, fs, fields, name))

DoWhereEquals ==
  \E field \in {"f", "_id"}, value \in SoughtValues :
     /\ Pushable
     /\ Configure("where", Where(db, field, "=", value))

NextIndexes ==
  \/ DoCreateIndexNamed
  \/ DoWhereEquals
  \/ DoGetMatching

SpecIndexes == InitIndexes /\ [][NextIndexes]_vars

(***************************************************************************)
(* Revision histories.  Inserts without _id, updates of every document     *)
(* with a patch of f or a patch that holds a _revisions array, deletes and  *)
(* enableSoftDeletes on the store the constructor leaves.                   *)
(***************************************************************************)
RevisionLists == {<<>>, <<"insert">>}

DoInsertFresh ==
  \E v \in FValues :
     /\ CanGenerateId(LoadAll(db, fs), fs)
     /\ Call("insert", "owner", Insert(db, fs, [_id |-> "", f |-> v], AllWrites))

DoUpdateField ==
  \E v \in FValues :
     Call("update", "owner", Update(db, fs, [k \in {"f"} |-> v], AllWrites))

DoUpdateRevisions ==
  \E revisions \in RevisionLists :
     Call("update", "owner",
          Update(db, fs, [k \in {"_revisions"} |-> revisions], AllWrites))

NextRevisions ==
  \/ DoInsertFresh
  \/ DoUpdateField
  \/ DoUpdateRevisions
  \/ DoDelete(NoCrash)
  \/ DoEnableSoftDeletes

SpecRevisions == Init /\ [][NextRevisions]_vars

(***************************************************************************)
(* Transactions with failing reads and writes.  A load of beginTransaction  *)
(* or a write of commit or rollback may throw; the instance lives on and    *)
(* takes the next call.  The run is followed up to a rollback that found    *)
(* no snapshot, which leaves the instance without a document list.          *)
(***************************************************************************)
\* The last call was not a rollback without snapshot.
Following == ~(last.op = "rollback" /\ last.outcome = "TypeError")

\* The writes that complete before the one that throws.
FailingWrites == 0..(AllWrites - 1)

DoInsertFollowing == Following /\ DoInsert(NoCrash)

DoBeginFollowing == Following /\ DoBeginTransaction

\* A load throws only when it reads: the artifact is not loaded yet.
DoBeginTransactionThrown ==
  \E id \in Ids \cup {NoLock}, loads \in 0..2 :
     /\ Following
     /\ ~db.inTransaction
     /\ \/ loads = 0 /\ ~db.dataLoaded
        \/ loads = 1 /\ ~db.indexesLoaded
        \/ loads = 2 /\ ~db.fullTextIndexLoaded
     /\ Call("beginTransaction", "owner", BeginTransactionThrown(db, fs, id, loads))

DoCommitFollowing == Following /\ DoCommit(NoCrash)

DoRollbackFollowing == Following /\ DoRollback(NoCrash)

DoCommitThrown ==
  \E writes \in FailingWrites :
     /\ Following
     /\ db.inTransaction
     /\ Call("commit", "owner", CommitThrown(db, fs, writes))

DoRollbackThrown ==
  \E writes \in FailingWrites :
     /\ Following
     /\ db.inTransaction
     /\ Call("rollback", "owner", RollbackThrown(db, fs, writes))

NextFaults ==
  \/ DoInsertFollowing
  \/ DoBeginFollowing
  \/ DoBeginTransactionThrown
  \/ DoCommitFollowing
  \/ DoRollbackFollowing
  \/ DoCommitThrown
  \/ DoRollbackThrown

SpecFaults == Init /\ [][NextFaults]_vars

(***************************************************************************)
(* Properties.                                                             *)
(***************************************************************************)
MutationOps == {"insert", "insertMany", "update", "delete"}

\* The call made last ended normally.
Returned(l) == l.outcome = "ok"

\* C1: after rollback() returns, the document list, the secondary indexes
\* and the full-text index in memory equal their values at the moment
\* beginTransaction() took its snapshot, whatever insert, insertMany, update
\* and delete calls were made in between, and the three persisted artifacts
\* equal that same state.
C1_RollbackRestoresBeginState ==
  [][(last'.op = "rollback" /\ Returned(last'))
       => (Memory(db') = begun /\ fs' = begun)]_vars

\* C1 witness: a rollback has returned in a transaction that had buffered
\* mutations, over a collection that was not empty when it began.
C1_Witness ==
  /\ last.op = "rollback"
  /\ Returned(last)
  /\ last.logged >= 1
  /\ db.data # <<>>

\* The notifications one listener is due for a transaction log: one per
\* logged document, in log order, with the kind of the mutation.
RECURSIVE DueNotifications(_)
DueNotifications(log) ==
  IF log = <<>> THEN <<>>
  ELSE LET rec == Head(log)
           kind == IF rec.type \in {"insert", "insertMany"} THEN "insert"
                   ELSE IF rec.type = "update" THEN "update"
                   ELSE IF rec.isSoftDelete THEN "soft_delete" ELSE "delete"
       IN [i \in 1..Len(rec.ids) |-> [_id |-> rec.ids[i], type |-> kind]]
          \o DueNotifications(Tail(log))

\* What a call delivered to listener cb, in order.
DeliveredTo(l, cb) ==
  LET mine == SelectSeq(l.notified, LAMBDA n : n.listener = cb)
  IN [i \in 1..Len(mine) |-> [_id |-> mine[i]._id, type |-> mine[i].type]]

\* C2: commit() delivers to every registered change listener exactly one
\* notification per mutation buffered in the transaction log (one per
\* document for insertMany and update records), in the order the mutations
\* were logged, with kinds insert, update, delete and soft_delete.
C2_CommitNotifiesInLogOrder ==
  [][(last'.op = "commit" /\ Returned(last'))
       => \A cb \in 1..db.changeListeners :
             DeliveredTo(last', cb) = DueNotifications(db.transactionLog)]_vars

\* C3: when the process stops inside a persist step, the three persisted
\* artifacts are all three from before the call or all three from after it.
C3_PersistIsAllOrNothing ==
  [][(last'.outcome = "crash") => (fs' = fs \/ fs' = Memory(db'))]_vars

\* The ids of the documents of data whose values at fields serialize to key.
IdsWithKey(data, fields, key) ==
  {data[i]._id : i \in {j \in 1..Len(data) :
                          GetCompositeIndexValue(data[j], fields) = Key(key)}}

AllKeys(data, fields) ==
  {GetCompositeIndexValue(data[i], fields).key :
     i \in {j \in 1..Len(data) : ~GetCompositeIndexValue(data[j], fields).isNull}}

\* C4: for every index and every key K, the id list stored under K holds
\* exactly the ids of the documents of the collection whose values at the
\* index's field paths serialize to K; a document with a null or missing
\* indexed value is under no key.
C4_IndexInvariant ==
  \A name \in DOMAIN db.indexes :
     LET index == db.indexes[name]
     IN \A key \in DOMAIN index.map \cup AllKeys(db.data, index.fields) :
           (IF key \in DOMAIN index.map THEN Range(index.map[key]) ELSE {})
             = IdsWithKey(db.data, index.fields, key)

\* C5: a ValidationError of insert or insertMany leaves the document list,
\* the secondary indexes, the full-text index and the persisted artifacts
\* as they were before the call, and delivers no notification.
C5_ValidationErrorBeforeMutation ==
  [][(last'.op \in {"insert", "insertMany"} /\ last'.outcome = "ValidationError")
       => (Memory(db') = Memory(db) /\ fs' = fs /\ last'.notified = <<>>)]_vars

\* C6: when re-validation fails during update(), the document that failed
\* keeps the field values, _updated stamp and _revisions list it had before
\* the call: every document the call changed passes validation.
C6_FailedUpdateKeepsDocument ==
  [][(last'.op = "update" /\ last'.outcome = "ValidationError")
       => /\ Len(db'.data) = Len(db.data)
          /\ \A i \in 1..Len(db.data) :
                db'.data[i] # db.data[i] => ValidateDocument(db', db'.data[i])]_vars

\* C7: a mutation that fails with a transaction-lock error changes neither
\* the document list, nor an index, nor the transaction log.
C7_LockErrorChangesNothing ==
  [][(last'.op \in MutationOps /\ last'.outcome = "TransactionLockError")
       => (Memory(db') = Memory(db)
           /\ db'.transactionLog = db.transactionLog)]_vars

\* C8: in a transaction scoped to a stored document s, update and delete are
\* rejected with a lock error if and only if they target a document other
\* than s, insert is rejected, and an accepted mutation is logged.
C8_ScopedLockRejectsOthersOnly ==
  [][(/\ db.inTransaction
      /\ db.transactionLock \in {db.data[i]._id : i \in 1..Len(db.data)}
      /\ last'.op \in MutationOps)
       => /\ last'.op \in {"insert", "insertMany"}
               => last'.outcome = "TransactionLockError"
          /\ last'.op \in {"update", "delete"}
               => (last'.outcome = "TransactionLockError"
                     <=> ~(last'.target \subseteq {db.transactionLock}))
          /\ (Returned(last') /\ last'.ret /\ last'.target # {})
               => Len(db'.transactionLog) = Len(db.transactionLog) + 1]_vars

\* C9: while an unscoped transaction is active, a mutation made by a call
\* site other than the one that began it is applied to nothing: the
\* collection, the indexes and the transaction log stay as they were.
C9_UnscopedLockRejectsOtherCallers ==
  [][(/\ db.inTransaction
      /\ db.transactionLock = NoLock
      /\ last'.op \in MutationOps
      /\ last'.caller = "other")
       => (~Returned(last')
           /\ Memory(db') = Memory(db)
           /\ db'.transactionLog = db.transactionLog)]_vars

\* C10: while a transaction is active, every insert, insertMany, update and
\* delete that succeeds (delete: returns true) appends one record to the
\* transaction log and delivers no notification, and none of these calls,
\* failed ones included, writes a persisted artifact.
C10_MutationsAreBufferedInTransaction ==
  [][(db.inTransaction /\ last'.op \in MutationOps)
       => /\ fs' = fs
          /\ last'.notified = <<>>
          /\ (Returned(last') /\ last'.ret)
               => /\ Len(db'.transactionLog) = Len(db.transactionLog) + 1
                  /\ SubSeq(db'.transactionLog, 1, Len(db.transactionLog))
                       = db.transactionLog]_vars

\* C10 witness: an update inside a transaction returned after an earlier
\* buffered mutation, with a listener registered and documents updated.
C10_Witness ==
  /\ db.inTransaction
  /\ last.op = "update"
  /\ Returned(last)
  /\ last.target # {}
  /\ last.logged >= 1
  /\ db.changeListeners >= 1
  /\ Memory(db) # fs

\* C11: after commit() returns, each of the three persisted artifacts equals
\* the documents, secondary indexes and full-text index in memory, which are
\* what the buffered mutations left there (commit itself changes none of
\* them), and the store is idle: no active transaction, no lock, an empty
\* log and no snapshot.
C11_CommitPersistsAndEnds ==
  [][(last'.op = "commit" /\ Returned(last'))
       => /\ fs' = Memory(db')
          /\ Memory(db') = Memory(db)
          /\ ~db'.inTransaction
          /\ db'.transactionLock = NoLock
          /\ db'.transactionLog = <<>>
          /\ ~db'.initialState.defined]_vars

\* C11 witness: a commit has returned for a transaction that had
\* buffered a mutation, and the documents it persisted are not the empty
\* collection.
C11_Witness ==
  /\ last.op = "commit"
  /\ Returned(last)
  /\ last.logged >= 1
  /\ fs.data # <<>>
  /\ fs = Memory(db)

\* C12: beginTransaction() while a transaction is active fails, commit() and
\* rollback() while none is active fail, and each of these failing calls
\* leaves every field of the store (flag, lock, log, snapshot, documents)
\* and the persisted artifacts unchanged; so at most one transaction is
\* active at a time.
C12_TransactionStateMachine ==
  [][/\ (last'.op = "beginTransaction" /\ db.inTransaction)
          => last'.outcome = "TransactionStateError"
     /\ (last'.op \in {"commit", "rollback"} /\ ~db.inTransaction)
          => last'.outcome = "TransactionStateError"
     /\ last'.outcome = "TransactionStateError" => (db' = db /\ fs' = fs)]_vars

\* C12 witness: a nested beginTransaction() has failed while the active
\* transaction held a lock and a buffered mutation.
C12_Witness ==
  /\ last.op = "beginTransaction"
  /\ last.outcome = "TransactionStateError"
  /\ db.inTransaction
  /\ db.transactionLock # NoLock
  /\ db.transactionLog # <<>>

\* C13: no two live (not tombstoned) documents of the collection have the
\* same _id.
C13_UniqueIds ==
  \A i \in 1..Len(db.data) : \A j \in 1..Len(db.data) :
     (i # j /\ ~db.data[i]._deleted /\ ~db.data[j]._deleted)
       => db.data[i]._id # db.data[j]._id

\* C14: update() with any patch, and a soft delete, leave every stored
\* document with the _id it had before the call.
C14_IdIsImmutable ==
  [][(last'.op = "update" \/ (last'.op = "delete" /\ db.softDeleteEnabled))
       => /\ Len(db'.data) = Len(db.data)
          /\ \A i \in 1..Len(db.data) : db'.data[i]._id = db.data[i]._id]_vars

\* The tokens of the current values of a document's declared text fields.
TokensOf(doc, fields) ==
  UNION {TokenizeText(GetValueByDot(doc, field)) : field \in fields}

\* C15: once createFullTextIndex(fields) has declared the text fields, a
\* token maps to a document id if and only if a document of the collection
\* (tombstoned or not) has that id and the current string value of one of
\* its declared text fields tokenizes to a set containing the token.
C15_FullTextIndexInvariant ==
  db.fullTextIndexedFields # {}
    => LET tokens == DOMAIN db.fullTextIndex
                       \cup UNION {TokensOf(db.data[i], db.fullTextIndexedFields) :
                                     i \in 1..Len(db.data)}
       IN \A w \in tokens : \A id \in Ids :
             (w \in DOMAIN db.fullTextIndex /\ id \in db.fullTextIndex[w])
               <=> \E i \in 1..Len(db.data) :
                      /\ db.data[i]._id = id
                      /\ w \in TokensOf(db.data[i], db.fullTextIndexedFields)

\* The rows a full scan gives for the query state: every visible document
\* that satisfies every predicate, no index consulted.
FullScan(d) == SelectSeq(Visible(d), LAMBDA doc : Matches(doc, d.wheres))

\* C16: when an index exists on f and the query is where(f, '=', v) alone,
\* get() returns the same set of documents as the full scan of the same
\* predicate, for every stored value of f and every queried value v.
C16_IndexedGetEqualsFullScan ==
  [][(/\ last'.op = "get"
      /\ "f" \in DOMAIN db.indexes
      /\ Len(db.wheres) = 1
      /\ db.wheres[1].field = "f"
      /\ db.wheres[1].operator = "="
      /\ db.limitCount = NoLimit
      /\ db.skipCount = 0)
       => (Returned(last') /\ Range(last'.rows) = Range(FullScan(db)))]_vars

TerminalOps == {"get", "findOne", "findById", "count", "update"}

QueryState(d) ==
  [wheres |-> d.wheres, limitCount |-> d.limitCount, skipCount |-> d.skipCount,
   orderByField |-> d.orderByField, orderByDirection |-> d.orderByDirection,
   showDeleted |-> d.showDeleted]

\* C17: after every execution of get(), findOne(), findById(), count() and
\* update() the query state is the empty one the constructor leaves: no
\* predicate, no order field, skip 0, no limit, show-deleted false.
C17_QueryStateIsReset ==
  [][last'.op \in TerminalOps => QueryState(db') = QueryState(NewStore)]_vars

Tombstones(d) == {d.data[i] : i \in {j \in 1..Len(d.data) : d.data[j]._deleted}}

\* C18: with soft deletes enabled, a delete(id) that succeeds leaves the
\* document in the collection with _deleted = true; every tombstoned
\* document is returned by withTrashed().get() and onlyDeleted().get() and
\* by withTrashed().findById(id); and none is returned by the default
\* get(), findOne() and findById(id) or counted by the default count().
C18_SoftDeleteVisibility ==
  [][db.softDeleteEnabled =>
       /\ (last'.op = "delete" /\ Returned(last') /\ last'.ret)
            => /\ Len(db'.data) = Len(db.data)
               /\ \E i \in 1..Len(db.data) :
                     /\ db.data[i]._id \in last'.target
                     /\ ~db.data[i]._deleted
                     /\ db'.data[i]._id = db.data[i]._id
                     /\ db'.data[i]._deleted
       /\ (last'.op = "get" /\ Returned(last') /\ db.showDeleted /\ db.wheres = <<>>
              /\ db.limitCount = NoLimit /\ db.skipCount = 0)
            => Tombstones(db) \subseteq Range(last'.rows)
       /\ (last'.op = "findById" /\ db.showDeleted)
            => \A doc \in Tombstones(db) :
                  doc._id \in last'.target => last'.rows = <<doc>>
       /\ (last'.op \in {"get", "findOne", "findById"} /\ Returned(last')
              /\ ~db.showDeleted)
            => Range(last'.rows) \cap Tombstones(db) = {}
       /\ (last'.op = "count" /\ ~db.showDeleted)
            => last'.n = Len(SelectSeq(db.data, LAMBDA doc :
                               ~doc._deleted /\ Matches(doc, db.wheres)))]_vars

\* C18 witness: after a soft delete, get() with the show-deleted flag set
\* has returned the tombstoned document.
C18_Witness ==
  /\ db.softDeleteEnabled
  /\ last.op = "get"
  /\ Returned(last)
  /\ Tombstones(db) # {}
  /\ Tombstones(db) \subseteq Range(last.rows)

\* The number of tombstoned documents in a persisted documents artifact.
TombstoneCount(f) == Cardinality({i \in 1..Len(f.data) : f.data[i]._deleted})

\* C19: a tombstoned document that has been persisted stays in the
\* persisted documents artifact through every later call, also on a store
\* instance that loaded the file, until it is hard-deleted: no call other
\* than a hard delete leaves the artifact with fewer tombstones.
C19_TombstoneIsRetained ==
  [][(last'.op = "delete" /\ ~db.softDeleteEnabled)
       \/ TombstoneCount(fs') >= TombstoneCount(fs)]_vars

\* C20: when the process stops inside a save, each of the three persisted
\* files holds either the complete content it had before the call or the
\* complete content the call was saving, never anything else.
C20_EachFileIsOldOrNew ==
  [][last'.outcome = "crash"
       => /\ fs'.data \in {fs.data, db'.data}
          /\ fs'.indexes \in {fs.indexes, db'.indexes}
          /\ fs'.fullTextIndex \in {fs.fullTextIndex, db'.fullTextIndex}]_vars

\* C20 witness: the process stopped after the documents file was replaced
\* and inside the write of an index file whose new content differs from
\* the old, over a documents file that was not empty before.
C20_Witness ==
  /\ last.outcome = "crash"
  /\ fs.data = db.data
  /\ Len(fs.data) >= 2
  /\ fs.indexes # db.indexes

\* A chain run alone, from its builder calls to the return of its terminal
\* call: [db, fs, answer].
RunChain(d, f, chain) ==
  LET q == LoadData(WhereAll(d, chain.wheres), f)
      updated == Update(q, f, OverlapPatch, AllWrites)
  IN IF chain.op = "get"
     THEN [db |-> Get(q, f).db, fs |-> f,
           answer |-> Answer(Get(q, f).outcome, Get(q, f).rows, 0)]
     ELSE IF chain.op = "count"
     THEN [db |-> Count(q, f).db, fs |-> f,
           answer |-> Answer("ok", <<>>, Len(Count(q, f).rows))]
     ELSE [db |-> updated.db, fs |-> updated.fs,
           answer |-> Answer(updated.outcome,
                             UpdatedDocs(updated.db, Get(LoadAll(q, f), f).rows), 0)]

\* The chain first run alone, then the chain second.
Serial(first, second) ==
  LET a == RunChain(pending.db, pending.fs, first)
      b == RunChain(a.db, a.fs, second)
  IN [db |-> b.db, fs |-> b.fs, first |-> a.answer, second |-> b.answer]

AllSettled ==
  /\ Len(pending.chains) = 2
  /\ \A i \in 1..2 : pending.chains[i].pc = "done"

\* C21: when two call chains made on one instance have both settled, the
\* results of the two and the store and files they leave are those of
\* running one chain to its end and then the other, in one of the two
\* orders.
C21_OverlappingChainsAreSerial ==
  AllSettled =>
    LET c1 == pending.chains[1]
        c2 == pending.chains[2]
        Same(run, x, y) == /\ run.db = db
                           /\ run.fs = fs
                           /\ run.first = x.answer
                           /\ run.second = y.answer
    IN Same(Serial(c1, c2), c1, c2) \/ Same(Serial(c2, c1), c2, c1)

\* The documents fullTextSearch(query) is to return: those the soft-delete
\* filter lets through whose declared text fields hold every token of the
\* query, when the query has a token.
Conjunctive(d, query) ==
  {doc \in Range(d.data) :
     /\ ~d.softDeleteEnabled \/ d.showDeleted \/ ~doc._deleted
     /\ TokenizeText(query) # {}
     /\ TokenizeText(query) \subseteq TokensOf(doc, d.fullTextIndexedFields)}

\* C22: fullTextSearch(q) returns exactly the visible documents whose
\* indexed text holds every token of q, and nothing when q has no token or
\* one of its tokens is in no document.
C22_FullTextSearchIsConjunctive ==
  [][last'.op = "fullTextSearch"
       => \A query \in SearchQueries :
             query.v \in last'.target
               => Range(last'.rows) = Conjunctive(db, query)]_vars

\* The number of items on page k of n items, p to a page.
ItemsOnPage(n, k, p) ==
  IF (k - 1) * p >= n THEN 0
  ELSE IF n - (k - 1) * p < p THEN n - (k - 1) * p
  ELSE p

\* m = ceil(n / p): the least number of pages of p items that hold n items.
IsCeiling(m, n, p) == m * p >= n /\ (m = 0 \/ (m - 1) * p < n)

\* C23: with no predicate and the default visibility, for every page and
\* perPage, each clamped to 1 from below, paginate returns the items of
\* that page of the N visible documents, totalCount = N, totalPages =
\* ceil(N / perPage), hasMorePages = (page < totalPages), nextPage = page +
\* 1 with more pages and null without, prevPage = page - 1 after page 1
\* and null on it.
C23_PaginationArithmetic ==
  [][(last'.op = "paginate" /\ db.wheres = <<>> /\ ~db.showDeleted)
       => \A page \in 0..MaxPage, perPage \in 0..MaxPage :
             LET r == Paginate(db, fs, page, perPage)
                 k == AtLeastOne(page)
                 p == AtLeastOne(perPage)
                 N == Len(Visible(LoadData(db, fs)))
             IN /\ r.outcome = "ok"
                /\ Len(r.rows) = ItemsOnPage(N, k, p)
                /\ r.rows = SubSeq(Visible(LoadData(db, fs)), (k - 1) * p + 1,
                                   (k - 1) * p + ItemsOnPage(N, k, p))
                /\ r.currentPage = k
                /\ r.perPage = p
                /\ r.totalCount = N
                /\ IsCeiling(r.totalPages, N, p)
                /\ r.hasMorePages = (k < r.totalPages)
                /\ r.nextPage = (IF r.hasMorePages THEN <<k + 1>> ELSE NoPage)
                /\ r.prevPage = (IF k > 1 THEN <<k - 1>> ELSE NoPage)
                /\ (last'.n = N /\ Len(last'.rows) <= N)]_vars

\* C23 witness: paginate has returned a page of one of two documents.
C23_Witness ==
  /\ last.op = "paginate"
  /\ Returned(last)
  /\ last.n = 2
  /\ Len(last.rows) = 1

\* x < y, for two numbers or two one-letter strings of the model.
ValueBefore(x, y) ==
  \/ x.t = "number" /\ y.t = "number" /\ x.v = "0" /\ y.v = "1"
  \/ x.t = "string" /\ y.t = "string" /\ LocaleLess(x.v, y.v)

\* The position of the document with this id in the collection.
PositionOf(d, id) == CHOOSE i \in 1..Len(d.data) : d.data[i]._id = id

\* C24: get() after orderBy(f, direction), on documents whose f is missing,
\* null or a value of one type, returns every document once; with 'asc'
\* the documents with a null or missing f come after all the others and
\* the other values never decrease, with 'desc' they come first and the
\* other values never increase; documents with equal f keep their
\* collection order.
C24_OrderingWithNulls ==
  [][(last'.op = "get" /\ db.orderByField = "f")
       => LET rows == last'.rows
              asc == db.orderByDirection = "asc"
          IN /\ Returned(last')
             /\ Len(rows) = Len(db.data)
             /\ Range(rows) = Range(db.data)
             /\ \A i \in 1..Len(rows) : \A j \in (i + 1)..Len(rows) :
                   /\ IF asc
                      THEN ~(IsNullish(rows[i].f) /\ ~IsNullish(rows[j].f))
                      ELSE ~(~IsNullish(rows[i].f) /\ IsNullish(rows[j].f))
                   /\ IF asc
                      THEN ~ValueBefore(rows[j].f, rows[i].f)
                      ELSE ~ValueBefore(rows[i].f, rows[j].f)
                   /\ rows[i].f = rows[j].f
                        => PositionOf(db, rows[i]._id) < PositionOf(db, rows[j]._id)]_vars

\* C25: findById(i), called right after insert(d) returned a document with
\* id i, returns a value equal to the one insert returned, which is d plus
\* the generated fields: the id, the stamps of a new document and the one
\* revision 'insert'.
C25_InsertThenFindById ==
  [][(last.op = "insert" /\ Returned(last) /\ last'.op = "findById")
       => /\ last'.rows = last.rows
          /\ last.rows[1]._updated = 1
          /\ last.rows[1]._revisions = <<"insert">>
          /\ ~last.rows[1]._deleted]_vars

\* C26: a createIndex call made right after a createIndex call with the
\* same fields leaves the index map, in memory and in the index file, as
\* the first call left it, whatever inserts, updates and deletes the index
\* went through before the first call.
C26_CreateIndexIsIdempotent ==
  [][(/\ last.op = "createIndex"
      /\ last'.op = "createIndex"
      /\ last'.target = last.target)
       => /\ Returned(last')
          /\ db'.indexes = db.indexes
          /\ fs'.indexes = fs.indexes
          /\ fs'.indexes = db'.indexes]_vars

\* C26 witness: the second of two createIndex calls in a row with the same
\* fields returned, on an index that holds a document.
C26_Witness ==
  /\ last.op = "createIndex"
  /\ Returned(last)
  /\ last.n = 2
  /\ \E name \in last.target :
        /\ name \in DOMAIN db.indexes
        /\ db.indexes[name].map # EmptyMap

\* The ids of the documents a call changed, in collection order: the
\* document added, the document removed, or the documents that differ.
ChangedBy(before, after, target) ==
  IF Len(after) > Len(before) THEN <<after[Len(after)]._id>>
  ELSE IF Len(after) < Len(before) THEN <<CHOOSE id \in target : TRUE>>
  ELSE LET at == {i \in 1..Len(after) : after[i] # before[i]}
       IN [i \in 1..Cardinality(at) |->
             after[CHOOSE k \in at : Cardinality({j \in at : j < k}) = i - 1]._id]

\* One notification of kind type per listener 1..n, in registration order,
\* for each id of ids in turn.
RECURSIVE EveryListener(_, _, _)
EveryListener(n, ids, type) ==
  IF ids = <<>> THEN <<>>
  ELSE [cb \in 1..n |-> [listener |-> cb, _id |-> Head(ids), type |-> type]]
       \o EveryListener(n, Tail(ids), type)

\* C27: an insert, update or delete made outside a transaction returns
\* without an exception, leaves its effects in memory and in the data
\* file, and invokes every registered listener once per changed document,
\* in registration order, whichever of the listeners throw.
C27_ThrowingListenerIsSwallowed ==
  [][(last'.op \in {"insert", "update", "delete"} /\ ~db.inTransaction)
       => LET type == IF last'.op # "delete" THEN last'.op
                      ELSE IF db.softDeleteEnabled THEN "soft_delete" ELSE "delete"
              changed == ChangedBy(db.data, db'.data, last'.target)
          IN /\ Returned(last')
             /\ fs'.data = db'.data
             /\ last'.notified = EveryListener(db.changeListeners, changed, type)]_vars

\* C28: when the caller changes a document object that insert, insertMany,
\* update or get returned, the collection, the files and the documents of
\* the transaction log records stay as they were.
C28_ReturnedDocumentsAreSnapshots ==
  [][(last'.op = "assign")
       => /\ db' = db
          /\ fs' = fs
          /\ LoggedDocs(db', heap') = LoggedDocs(db, heap)]_vars

\* A document with the id is in the collection.
InCollection(d, id) == \E i \in 1..Len(d.data) : d.data[i]._id = id

\* C29: delete(id) returns true if and only if a document with that id is
\* in the collection; when it returns false the documents, both indexes,
\* the files and the transaction log are as before and no notification is
\* delivered; a delete of the id that a delete just removed returns false.
C29_DeleteReturnsWhetherFound ==
  [][(last'.op = "delete" /\ Returned(last'))
       => LET d == LoadAll(db, fs)
          IN /\ \A id \in last'.target : last'.ret <=> InCollection(d, id)
             /\ ~last'.ret
                  => /\ Memory(db') = Memory(d)
                     /\ fs' = fs
                     /\ db'.transactionLog = db.transactionLog
                     /\ last'.notified = <<>>
             /\ (last.op = "delete" /\ Returned(last) /\ last.ret
                   /\ last'.target = last.target)
                  => ~last'.ret]_vars

\* How many times id is listed under key in map.
TimesListed(map, key, id) ==
  IF key \notin DOMAIN map THEN 0
  ELSE Cardinality({n \in 1..Len(map[key]) : map[key][n] = id})

\* C30: after an update, for every index and every updated document whose
\* composite key changed from K1 to K2, the id is not listed under K1, is
\* listed once under K2 when K2 is a key (no field of it null or missing,
\* the empty string included), and no key is left with an empty list; when
\* no updated document changed its key the index map is as before.
C30_IndexFollowsUpdate ==
  [][(last'.op = "update" /\ Returned(last'))
       => LET d == LoadAll(db, fs)
              updated == {i \in 1..Len(d.data) : db'.data[i] # d.data[i]}
          IN \A name \in DOMAIN d.indexes :
                LET fields == d.indexes[name].fields
                    map == db'.indexes[name].map
                    K1(i) == GetCompositeIndexValue(d.data[i], fields)
                    K2(i) == GetCompositeIndexValue(db'.data[i], fields)
                IN /\ \A i \in updated :
                        K1(i) # K2(i)
                          => /\ ~K1(i).isNull
                                  => TimesListed(map, K1(i).key, d.data[i]._id) = 0
                             /\ ~K2(i).isNull
                                  => TimesListed(map, K2(i).key, db'.data[i]._id) = 1
                   /\ \A key \in DOMAIN map : map[key] # <<>>
                   /\ (\A i \in updated : K1(i) = K2(i))
                        => map = d.indexes[name].map]_vars

\* The operators the comparison of a predicate may use.
ListedOperators == {"=", "==", "!=", "<>", ">", ">=", "<", "<=", "in", "like"}

\* A comparison holds of a document: its operator is a listed one and the
\* comparison is true.
Compares(doc, condition) ==
  condition.operator \in ListedOperators /\ TestCondition(doc, condition)

\* An element of the predicate list holds of a document.
Holds(doc, condition) ==
  IF "or" \in DOMAIN condition
  THEN \E k \in 1..Len(condition.or) : Compares(doc, condition.or[k])
  ELSE Compares(doc, condition)

\* C31: with no index defined, get() returns the visible documents that
\* satisfy every element of the predicate list (an OR-group when one of its
\* sub-conditions holds, a comparison with an unknown operator never), in
\* the order of the collection or sorted when an order is set, without the
\* first skip of them and cut to at most limit of them.
C31_GetFiltersOrdersAndSlices ==
  [][(last'.op = "get" /\ Returned(last') /\ DOMAIN db.indexes = {})
       => LET d == LoadData(db, fs)
              matching == SelectSeq(Visible(d), LAMBDA doc :
                            \A i \in 1..Len(d.wheres) : Holds(doc, d.wheres[i]))
              ordered == IF d.orderByField = NoOrder THEN matching
                         ELSE SortBy(matching, d.orderByField, d.orderByDirection)
              left == IF Len(ordered) > d.skipCount THEN Len(ordered) - d.skipCount
                      ELSE 0
              kept == IF d.limitCount # NoLimit /\ d.limitCount[1] < left
                      THEN d.limitCount[1] ELSE left
          IN last'.rows = [i \in 1..kept |-> ordered[d.skipCount + i]]]_vars

\* C31 witness: get() with two predicates, one of them an OR-group, has
\* returned one of the two documents of the collection.
C31_Witness ==
  /\ last.op = "get"
  /\ last.n = 2
  /\ last.ret
  /\ Len(last.rows) = 1
  /\ Len(db.data) = 2
  /\ \A i \in 1..2 : ~db.data[i]._deleted

\* The store with no index: none in memory and none to load.
Unindexed(d) == [d EXCEPT !.indexes = EmptyIndexes, !.indexesLoaded = TRUE]

\* C32: whatever indexes createIndex has built (one field or several, the
\* default name or a chosen one, the name of another field included) and
\* whatever the predicate list, get() returns the documents that the same
\* query returns on the same collection with no index.
C32_IndexUseKeepsResult ==
  [][(last'.op = "get")
       => /\ Returned(last')
          /\ last'.rows = Get(Unindexed(db), fs).rows]_vars

\* The entry _addRevision writes for a call.
RevisionOf(op) == IF op = "delete" THEN "soft_delete" ELSE op

\* C33: an insert, an update or a soft delete that succeeds leaves every
\* document that was stored before with its _revisions list as it was or
\* as it was followed by one entry for the call, whatever the patch of the
\* update holds, and gives a new document the single entry "insert".
C33_RevisionsAreAppendOnly ==
  [][(/\ last'.op \in {"insert", "update", "delete"}
      /\ Returned(last')
      /\ Len(db'.data) >= Len(LoadAll(db, fs).data))
       => LET d == LoadAll(db, fs)
          IN /\ \A i \in 1..Len(d.data) :
                   db'.data[i]._revisions
                     \in {d.data[i]._revisions,
                          Append(d.data[i]._revisions, RevisionOf(last'.op))}
             /\ \A i \in (Len(d.data) + 1)..Len(db'.data) :
                   db'.data[i]._revisions = <<"insert">>]_vars

\* The query state without its skip and limit.
Unsliced(d) == [d EXCEPT !.limitCount = NoLimit, !.skipCount = 0]

\* C34: for the predicates, the order and the show-deleted flag set before
\* paginate({page, perPage}), the data returned is the slice
\* [(page-1)*perPage, page*perPage) of the documents get() returns for that
\* query state, every item of it satisfies the predicates, and it has no
\* more items than totalCount.
C34_PaginateAppliesQuery ==
  [][(last'.op = "paginate" /\ Get(Unsliced(db), fs).outcome = "ok")
       => \A page \in 0..MaxPage, perPage \in 0..MaxPage :
             LET r == Paginate(db, fs, page, perPage)
                 k == AtLeastOne(page)
                 p == AtLeastOne(perPage)
                 all == Get(Unsliced(db), fs).rows
                 upTo == IF k * p < Len(all) THEN k * p ELSE Len(all)
             IN /\ r.outcome = "ok"
                /\ r.rows = SubSeq(all, (k - 1) * p + 1, upTo)
                /\ \A i \in 1..Len(r.rows) : Matches(r.rows[i], db.wheres)
                /\ Len(r.rows) <= r.totalCount]_vars

\* C35: for every collection, index set and query state without skip or
\* limit, count() returns the number of documents that get() returns for
\* the same predicates and show-deleted flag.
C35_CountAgreesWithGet ==
  [][(last'.op = "count" /\ db.skipCount = 0 /\ db.limitCount = NoLimit)
       => /\ Get(db, fs).outcome = "ok"
          /\ last'.n = Len(Get(db, fs).rows)]_vars

\* C36: outside a transaction, when an insert, insertMany, update or delete
\* call has returned or has thrown a validation error, the documents file
\* holds the document list in memory and the index file holds the indexes
\* in memory.
C36_PersistedEqualsMemory ==
  [][(/\ last'.op \in MutationOps
      /\ last'.outcome \in {"ok", "ValidationError"}
      /\ ~db'.inTransaction)
       => (fs'.data = db'.data /\ fs'.indexes = db'.indexes)]_vars

\* C37: a commit() or rollback() on an active transaction that returns, or
\* throws because a write of its persist step failed, leaves no transaction
\* active, no lock and an empty log, and a beginTransaction() that follows
\* succeeds.
C37_TransactionEndsIdle ==
  [][(/\ last'.op \in {"commit", "rollback"}
      /\ db.inTransaction
      /\ last'.outcome \in {"ok", "WriteError"})
       => /\ ~db'.inTransaction
          /\ db'.transactionLock = NoLock
          /\ db'.transactionLog = <<>>
          /\ BeginTransaction(db', fs', NoLock).outcome = "ok"]_vars

\* C38: while a transaction is active the begin-time snapshot of the
\* documents, the indexes and the full-text index exists; a
\* beginTransaction() that fails because a load throws leaves no
\* transaction active.
C38_ActiveTransactionHasSnapshot ==
  /\ db.inTransaction => db.initialState.defined
  /\ (last.op = "beginTransaction" /\ last.outcome = "ReadError") => ~db.inTransaction

ReadOps == {"get", "findOne", "findById", "count", "fullTextSearch", "paginate"}

\* C39: the show-deleted flag that withTrashed() or onlyDeleted() sets is
\* false again when the next get, findOne, findById, count, fullTextSearch
\* or paginate has returned, and paginate computes its totalCount and its
\* data with one value of the flag: with no predicate the data is a page of
\* the documents that were counted.
C39_ShowDeletedIsOneShot ==
  [][/\ (last'.op \in ReadOps /\ Returned(last')) => ~db'.showDeleted
     /\ (last'.op = "paginate" /\ db.wheres = <<>>)
          => \A page \in 0..MaxPage, perPage \in 0..MaxPage :
                LET r == Paginate(db, fs, page, perPage)
                    seen == Visible(LoadData(db, fs))
                IN /\ r.totalCount = Len(seen)
                   /\ Range(r.rows) \subseteq Range(seen)
                   /\ Len(r.rows) = ItemsOnPage(Len(seen), AtLeastOne(page),
                                                AtLeastOne(perPage))]_vars

\* C40: with soft deletes enabled, onlyDeleted().get() returns the
\* tombstoned documents that satisfy the predicates and no live document,
\* and withTrashed().get() returns the live and the tombstoned documents
\* that satisfy them.
C40_OnlyDeletedReturnsTombstones ==
  [][(/\ last'.op = "get"
      /\ Returned(last')
      /\ db.softDeleteEnabled
      /\ last.op \in {"onlyDeleted", "withTrashed"}
      /\ db.limitCount = NoLimit
      /\ db.skipCount = 0)
       => LET matching == {doc \in Range(LoadData(db, fs).data) :
                             Matches(doc, db.wheres)}
          IN Range(last'.rows)
               = IF last.op = "onlyDeleted"
                 THEN {doc \in matching : doc._deleted}
                 ELSE matching]_vars

====
